---- MODULE Spec2Model ----
(***************************************************************************)
(* Model of the argument analysis pipeline:                                *)
(*   TextPreprocessor -> ClaimDetector / EmotionAnalyzer                   *)
(*   -> ArgumentClassifier -> StructureBuilder.                            *)
(*                                                                         *)
(* Texts are TLA+ strings; substring tests, lower-casing, stripping and    *)
(* the regular expressions are computed character by character.            *)
(* Python floats are modelled as exact rationals <<num, den>>, den > 0.    *)
(***************************************************************************)
EXTENDS Integers, Sequences, FiniteSets, TLC

VARIABLES
    text,             \* the input text handed to process_text
    hash_seed,        \* the interpreter's string hash seed of this process
    sentences,        \* result of TextPreprocessor.process_text
    claim_results,    \* classify_arguments: result of detect_claims
    emotion_results,  \* classify_arguments: result of analyze_emotions
    classifications,  \* result of classify_arguments / input of build_structure
    nodes,            \* StructureBuilder.nodes
    root_claims,      \* StructureBuilder.root_claims
    nlp,              \* TextPreprocessor.nlp: the external tokenizer, if loaded
    tree_stats,       \* result of StructureBuilder.get_tree_stats
    feedback,         \* result of detect_logical_weaknesses
    previous_runs,    \* the classifications of the earlier runs on this text
    strongest_arguments, \* call and result of get_strongest_arguments
    summary,          \* result of get_argument_summary
    strongest_path,   \* result of StructureBuilder.get_strongest_path
    counter_pairs,    \* result of get_counterargument_pairs
    earlier_nodes,    \* the node lists built by earlier build_structure calls
    pc                \* position of the caller in the pipeline

vars == <<text, hash_seed, sentences, claim_results, emotion_results,
          classifications, nodes, root_claims, nlp, tree_stats, feedback,
          previous_runs, strongest_arguments, summary, strongest_path,
          counter_pairs, earlier_nodes, pc>>

\* the results of the query methods and the nodes a caller still holds
query_vars == <<strongest_arguments, summary, strongest_path, counter_pairs,
                earlier_nodes>>

(***************************************************************************)
(* Bounds of the model.                                                    *)
(***************************************************************************)
\* number of fragments the text of a classification handed to
\* detect_logical_weaknesses is assembled from
MaxWeakFrags == 3

\* number of fragments an input text is assembled from
MaxFrags == 3
\* number of classifications handed directly to build_structure
MaxCls == 3
\* number of fragments a sentence handed directly to classify_arguments is
\* assembled from
MaxWords == 3

(***************************************************************************)
(* Exact rational arithmetic standing in for Python float arithmetic.      *)
(***************************************************************************)
RECURSIVE GCD(_, _)
GCD(a, b) == IF b = 0 THEN a ELSE GCD(b, a % b)

Abs(x) == IF x < 0 THEN -x ELSE x

Reduce(r) ==
    LET g == GCD(Abs(r[1]), r[2]) IN <<r[1] \div g, r[2] \div g>>

LCM(a, b) == (a \div GCD(a, b)) * b

RAdd(a, b) ==
    LET l == LCM(a[2], b[2])
    IN  Reduce(<<a[1] * (l \div a[2]) + b[1] * (l \div b[2]), l>>)

RNeg(a) == <<-a[1], a[2]>>

RSub(a, b) == RAdd(a, RNeg(b))

RMul(a, b) ==
    LET x == Reduce(<<a[1], b[2]>>)
        y == Reduce(<<b[1], a[2]>>)
    IN  <<x[1] * y[1], x[2] * y[2]>>

\* a / b for b > 0
RDiv(a, b) == RMul(a, <<b[2], b[1]>>)

RAbs(a) == <<Abs(a[1]), a[2]>>

RLess(a, b) ==
    LET l == LCM(a[2], b[2])
    IN  a[1] * (l \div a[2]) < b[1] * (l \div b[2])

REq(a, b) == ~RLess(a, b) /\ ~RLess(b, a)

RLeq(a, b) == ~RLess(b, a)

RMax(a, b) == IF RLess(a, b) THEN b ELSE a

RMin(a, b) == IF RLess(b, a) THEN b ELSE a

\* an integer number of hundredths as a rational: Pct(85) is 0.85
Pct(n) == Reduce(<<n, 100>>)

Zero == <<0, 1>>
One == <<1, 1>>

(***************************************************************************)
(* Strings.                                                                *)
(***************************************************************************)
LowerAlpha == "abcdefghijklmnopqrstuvwxyz"
UpperAlpha == "ABCDEFGHIJKLMNOPQRSTUVWXYZ"
Digits == "0123456789_"
Whitespace == " "
Terminators == ".!?"

CharAt(s, i) == SubSeq(s, i, i)

\* c in s, for a one-character string c
InChars(c, s) == \E i \in 1..Len(s) : CharAt(s, i) = c

\* the upper-case letters as a set of one-character strings
UpperChars == {CharAt(UpperAlpha, i) : i \in 1..Len(UpperAlpha)}

\* str.isupper() of one character
IsUpper(c) == c \in UpperChars

\* str.lower() of one character
LowerChar(c) ==
    IF IsUpper(c)
    THEN CharAt(LowerAlpha, CHOOSE i \in 1..Len(UpperAlpha) : CharAt(UpperAlpha, i) = c)
    ELSE c

\* str.lower() of the characters lo..hi of s
RECURSIVE LowerRange(_, _, _)
LowerRange(s, lo, hi) ==
    IF lo > hi THEN ""
    ELSE IF lo = hi THEN LowerChar(CharAt(s, lo))
    ELSE LET mid == (lo + hi) \div 2
         IN  LowerRange(s, lo, mid) \o LowerRange(s, mid + 1, hi)

\* str.lower()
Lower(s) == LowerRange(s, 1, Len(s))

\* Python's `sub in s`
Contains(s, sub) ==
    \E i \in 1..(Len(s) - Len(sub) + 1) : SubSeq(s, i, i + Len(sub) - 1) = sub

\* str.count(c) for a one-character string c
CountChar(s, c) == Cardinality({i \in 1..Len(s) : CharAt(s, i) = c})

\* str.strip()
RECURSIVE LStrip(_)
LStrip(s) ==
    IF s /= "" /\ InChars(CharAt(s, 1), Whitespace)
    THEN LStrip(SubSeq(s, 2, Len(s)))
    ELSE s

RECURSIVE RStrip(_)
RStrip(s) ==
    IF s /= "" /\ InChars(CharAt(s, Len(s)), Whitespace)
    THEN RStrip(SubSeq(s, 1, Len(s) - 1))
    ELSE s

Strip(s) == LStrip(RStrip(s))

(***************************************************************************)
(* Lexicons of ClaimDetector and EmotionAnalyzer.                          *)
(***************************************************************************)
\* phrase -> weight in hundredths, in dictionary order
CLAIM_MARKERS ==
    << <<"therefore", 90>>, <<"thus", 90>>, <<"hence", 90>>, <<"so", 70>>,
       <<"conclude", 95>>, <<"conclusion", 95>>, <<"in conclusion", 95>>,
       <<"it is clear that", 90>>, <<"this shows that", 85>>,
       <<"this demonstrates", 85>>, <<"this proves", 90>>,
       <<"it follows that", 85>> >>

SUPPORT_MARKERS ==
    << <<"because", 85>>, <<"since", 80>>, <<"as", 60>>, <<"due to", 85>>,
       <<"caused by", 85>>, <<"for example", 75>>, <<"for instance", 75>>,
       <<"such as", 75>>, <<"like", 60>>, <<"in fact", 70>>,
       <<"indeed", 70>>, <<"furthermore", 75>>, <<"moreover", 75>>,
       <<"additionally", 75>>, <<"also", 65>>, <<"this supports", 90>>,
       <<"this proves", 85>>, <<"this shows", 85>>, <<"evidence", 80>>,
       <<"research shows", 85>>, <<"studies show", 85>> >>

COUNTER_MARKERS ==
    << <<"however", 80>>, <<"but", 85>>, <<"yet", 85>>,
       <<"although", 85>>, <<"though", 80>>, <<"despite", 85>>,
       <<"in spite of", 85>>, <<"on the other hand", 90>>,
       <<"conversely", 90>>, <<"by contrast", 90>>, <<"instead", 85>>,
       <<"rather", 75>>, <<"some people argue", 85>>,
       <<"others claim", 85>>, <<"critics say", 90>>,
       <<"opponents argue", 90>>, <<"this contradicts", 90>>,
       <<"disagree", 85>>, <<"counter-argument", 95>> >>

MODAL_VERBS ==
    << <<"should", 80>>, <<"must", 80>>, <<"ought", 80>>, <<"may", 60>>,
       <<"might", 60>>, <<"could", 60>>, <<"would", 60>>,
       <<"need to", 75>>, <<"have to", 70>> >>

BELIEF_MARKERS ==
    << <<"i believe", 85>>, <<"i think", 80>>, <<"in my opinion", 90>>,
       <<"my view", 90>>, <<"i argue", 90>>, <<"it seems", 70>>,
       <<"it appears", 70>>, <<"arguably", 85>>, <<"certainly", 75>>,
       <<"clearly", 75>>, <<"obviously", 75>> >>

\* word -> weight in hundredths; the literal lists "wonderful" twice, the dict keeps one entry
POSITIVE_WORDS ==
    << <<"good", 70>>, <<"great", 90>>, <<"excellent", 95>>,
       <<"wonderful", 90>>, <<"amazing", 95>>, <<"fantastic", 95>>,
       <<"beautiful", 80>>, <<"love", 85>>, <<"brilliant", 90>>,
       <<"perfect", 90>>, <<"awesome", 90>>, <<"positive", 80>>,
       <<"benefit", 75>>, <<"success", 80>>, <<"help", 70>>,
       <<"support", 75>>, <<"agree", 60>>, <<"right", 60>>,
       <<"true", 65>>, <<"best", 85>>, <<"better", 75>>,
       <<"improve", 80>> >>

NEGATIVE_WORDS ==
    << <<"bad", 70>>, <<"terrible", 95>>, <<"awful", 95>>,
       <<"horrible", 95>>, <<"hate", 95>>, <<"dislike", 80>>,
       <<"wrong", 75>>, <<"evil", 95>>, <<"stupid", 90>>,
       <<"idiots", 95>>, <<"idiotic", 95>>, <<"ridiculous", 85>>,
       <<"absurd", 85>>, <<"nonsense", 85>>, <<"lies", 90>>,
       <<"failure", 80>>, <<"problem", 60>>, <<"issue", 50>>,
       <<"danger", 75>>, <<"dangerous", 85>>, <<"threat", 80>>,
       <<"destroy", 85>>, <<"crisis", 80>>, <<"disaster", 90>>,
       <<"blame", 70>>, <<"fault", 70>>, <<"worst", 90>>, <<"worse", 80>>,
       <<"negative", 70>>, <<"disagree", 60>>, <<"false", 75>>,
       <<"incorrect", 70>> >>

\* word -> multiplier in hundredths
INTENSITY_MARKERS ==
    << <<"very", 120>>, <<"extremely", 130>>, <<"incredibly", 130>>,
       <<"absolutely", 130>>, <<"definitely", 120>>, <<"obviously", 110>>,
       <<"clearly", 110>>, <<"utterly", 130>>, <<"completely", 120>>,
       <<"totally", 120>>, <<"really", 115>>, <<"so", 115>> >>

RECURSIVE SumSeq(_)
SumSeq(s) == IF s = <<>> THEN 0 ELSE s[1] + SumSeq(Tail(s))

\* ClaimDetector.__init__: self.all_markers, keyed by type, each in dict order
all_markers ==
    [CLAIM   |-> CLAIM_MARKERS \o MODAL_VERBS \o BELIEF_MARKERS,
     SUPPORT |-> SUPPORT_MARKERS,
     COUNTER |-> COUNTER_MARKERS]

\* iteration order of the type_scores dict
TypeOrder == <<"CLAIM", "SUPPORT", "COUNTER", "NEUTRAL">>

\* the entries of a lexicon whose phrase is a substring of text_lower
MatchedEntries(markers, text_lower) ==
    SelectSeq(markers, LAMBDA m : Contains(text_lower, m[1]))

\* the weights (hundredths) and the phrases of a list of lexicon entries
RECURSIVE Weights(_)
Weights(m) == IF m = <<>> THEN <<>> ELSE <<m[1][2]>> \o Weights(Tail(m))

RECURSIVE Phrases(_)
Phrases(m) == IF m = <<>> THEN <<>> ELSE <<m[1][1]>> \o Phrases(Tail(m))

\* the loop "for claim_type, markers in self.all_markers.items()": per type
\* the entries that pass "if marker in text_lower"
MarkerSearch(text_lower) ==
    [CLAIM   |-> MatchedEntries(all_markers.CLAIM, text_lower),
     SUPPORT |-> MatchedEntries(all_markers.SUPPORT, text_lower),
     COUNTER |-> MatchedEntries(all_markers.COUNTER, text_lower)]

\* type_scores after the marker search: weights (hundredths) per type
type_scores(matched) ==
    [CLAIM   |-> Weights(matched.CLAIM),
     SUPPORT |-> Weights(matched.SUPPORT),
     COUNTER |-> Weights(matched.COUNTER),
     NEUTRAL |-> <<0>>]

\* found_markers after the marker search
found_markers(matched) ==
    [CLAIM   |-> Phrases(matched.CLAIM),
     SUPPORT |-> Phrases(matched.SUPPORT),
     COUNTER |-> Phrases(matched.COUNTER)]

\* AvgScore without the division by len(scores)
AvgScore_NoDivision(scores) == Reduce(<<SumSeq(scores), 100>>)

\* sum(scores) / len(scores)
AvgScore(scores) == Reduce(<<SumSeq(scores), 100 * Len(scores)>>)

\* BestClassification with "avg_score >= confidence" in place of ">"
RECURSIVE BestClassification_LastWins(_, _, _, _)
BestClassification_LastWins(scores, found, i, best) ==
    IF i > Len(TypeOrder) THEN best
    ELSE LET ctype == TypeOrder[i]
             next == IF scores[ctype] /= <<>> /\ ctype /= "NEUTRAL"
                        /\ RLeq(best.confidence, AvgScore(scores[ctype]))
                     THEN [claim_type |-> ctype,
                           confidence |-> AvgScore(scores[ctype]),
                           markers    |-> found[ctype]]
                     ELSE best
         IN  BestClassification_LastWins(scores, found, i + 1, next)

\* the loop "for ctype, scores in type_scores.items()" from position i on,
\* best = [claim_type, confidence, markers] so far
RECURSIVE BestClassification(_, _, _, _)
BestClassification(scores, found, i, best) ==
    IF i > Len(TypeOrder) THEN best
    ELSE LET ctype == TypeOrder[i]
             next == IF scores[ctype] /= <<>>
                        /\ RLess(best.confidence, AvgScore(scores[ctype]))
                     THEN [claim_type |-> ctype,
                           confidence |-> AvgScore(scores[ctype]),
                           markers    |-> found[ctype]]
                     ELSE best
         IN  BestClassification(scores, found, i + 1, next)

\* ClaimDetector._analyze_sentence searching sentence.text, not lower-cased
ClaimDetector_analyze_sentence_NoLower(sentence) ==
    LET matched == MarkerSearch(sentence.text)
        best == BestClassification(type_scores(matched),
                                   found_markers(matched), 1,
                                   [claim_type |-> "NEUTRAL",
                                    confidence |-> Zero,
                                    markers    |-> <<>>])
    IN  [sentence_text |-> sentence.text,
         confidence    |-> best.confidence,
         markers       |-> best.markers,
         claim_type    |-> best.claim_type]

\* ClaimDetector._analyze_sentence
ClaimDetector_analyze_sentence(sentence) ==
    LET text_lower == Lower(sentence.text)
        matched == MarkerSearch(text_lower)
        best == BestClassification(type_scores(matched),
                                   found_markers(matched), 1,
                                   [claim_type |-> "NEUTRAL",
                                    confidence |-> Zero,
                                    markers    |-> <<>>])
    IN  [sentence_text |-> sentence.text,
         confidence    |-> best.confidence,
         markers       |-> best.markers,
         claim_type    |-> best.claim_type]

\* detect_claims that leaves out the sentences without any marker
detect_claims_SkipNeutral(sents) ==
    SelectSeq([i \in 1..Len(sents) |-> ClaimDetector_analyze_sentence(sents[i])],
              LAMBDA r : r.claim_type /= "NEUTRAL")

\* ClaimDetector.detect_claims
detect_claims(sents) ==
    [i \in 1..Len(sents) |-> ClaimDetector_analyze_sentence(sents[i])]

(***************************************************************************)
(* EmotionAnalyzer.                                                        *)
(***************************************************************************)
\* the loop over INTENSITY_MARKERS, restricted to the entries that pass
\* "if intensity_word in text_lower", from matched entry i on
RECURSIVE IntensityLoop(_, _, _)
IntensityLoop(matched, i, m) ==
    IF i > Len(matched) THEN m
    ELSE IntensityLoop(matched, i + 1, RMax(m, Pct(matched[i][2])))

\* intensity_multiplier after the loop over INTENSITY_MARKERS
intensity_multiplier(text_lower) ==
    IntensityLoop(MatchedEntries(INTENSITY_MARKERS, text_lower), 1, One)

\* what one matched lexicon entry adds to a score: weight * multiplier
WordContribution(entry, mult) == RMul(Pct(entry[2]), mult)

\* the loop over a word lexicon, restricted to the entries that pass
\* "if word in text_lower", from matched entry i on
RECURSIVE WordScoreLoop(_, _, _, _)
WordScoreLoop(matched, mult, i, score) ==
    IF i > Len(matched) THEN score
    ELSE WordScoreLoop(matched, mult, i + 1,
                       RAdd(score, WordContribution(matched[i], mult)))

\* the number of positions at which sub occurs in s
CountOccurrences(s, sub) ==
    Cardinality({i \in 1..(Len(s) - Len(sub) + 1) :
                    SubSeq(s, i, i + Len(sub) - 1) = sub})

\* the matched entries of a lexicon, each repeated once per occurrence
RECURSIVE EntriesPerOccurrence(_, _)
EntriesPerOccurrence(matched, text_lower) ==
    IF matched = <<>> THEN <<>>
    ELSE [k \in 1..CountOccurrences(text_lower, matched[1][1]) |-> matched[1]]
         \o EntriesPerOccurrence(Tail(matched), text_lower)

\* WordScore adding weight * multiplier for every occurrence of a word
WordScore_PerOccurrence(words, text_lower, mult) ==
    WordScoreLoop(EntriesPerOccurrence(MatchedEntries(words, text_lower),
                                       text_lower), mult, 1, Zero)

\* the score a word lexicon adds for a text
WordScore(words, text_lower, mult) ==
    WordScoreLoop(MatchedEntries(words, text_lower), mult, 1, Zero)

\* the words of a lexicon appended to emotion_keywords, in dict order
WordKeywords(words, text_lower) == Phrases(MatchedEntries(words, text_lower))

\* sum(1 for c in text if c.isupper()) / len(text) if text else 0
uppercase_ratio(txt) ==
    IF txt = "" THEN Zero
    ELSE Reduce(<<Cardinality({i \in 1..Len(txt) : IsUpper(CharAt(txt, i))}),
                  Len(txt)>>)

CapsLock(txt) == RLess(<<3, 10>>, uppercase_ratio(txt))

exclamation_count(txt) == CountChar(txt, "!")

\* positive_score / negative_score at the end of the scoring part, given
\* text_lower = text.lower() and the intensity_multiplier mult
positive_score(txt, text_lower, mult) ==
    LET w == WordScore(POSITIVE_WORDS, text_lower, mult)
        c == IF CapsLock(txt) THEN RAdd(w, RMul(<<3, 10>>, mult)) ELSE w
        n == exclamation_count(txt)
    IN  IF n > 0 THEN RAdd(c, RMul(<<1, 5>>, <<n, 1>>)) ELSE c

negative_score(txt, text_lower, mult) ==
    LET w == WordScore(NEGATIVE_WORDS, text_lower, mult)
        c == IF CapsLock(txt) THEN RAdd(w, RMul(<<3, 10>>, mult)) ELSE w
        n == exclamation_count(txt)
    IN  IF n > 0 THEN RAdd(c, RMul(<<3, 20>>, <<n, 1>>)) ELSE c

\* the decimal digits of a natural number, for the f-string "!x{count}"
RECURSIVE NatToString(_)
NatToString(n) ==
    IF n < 10 THEN CharAt("0123456789", n + 1)
    ELSE NatToString(n \div 10) \o CharAt("0123456789", (n % 10) + 1)

\* emotion_keywords before de-duplication, in append order
emotion_keywords_list(txt, text_lower) ==
    WordKeywords(POSITIVE_WORDS, text_lower)
    \o WordKeywords(NEGATIVE_WORDS, text_lower)
    \o (IF CapsLock(txt) THEN <<"CAPS_LOCK">> ELSE <<>>)
    \o (IF exclamation_count(txt) > 0
        THEN <<"!x" \o NatToString(exclamation_count(txt))>> ELSE <<>>)

RECURSIVE Dedup(_)
Dedup(s) ==
    IF s = <<>> THEN <<>>
    ELSE LET r == Dedup(SubSeq(s, 1, Len(s) - 1))
         IN  IF \E i \in 1..Len(r) : r[i] = s[Len(s)] THEN r
             ELSE Append(r, s[Len(s)])

Reverse(s) == [i \in 1..Len(s) |-> s[Len(s) + 1 - i]]

\* list(set(emotion_keywords)): the iteration order of a set of str is fixed
\* by the interpreter's per-process string hash seed; two orders stand for it
ListOfSet(s, seed) == IF seed = 0 THEN Dedup(s) ELSE Reverse(Dedup(s))

\* sentiment_score
SentimentScore(total_positive, total_negative) ==
    IF RAdd(total_positive, total_negative) = Zero
    THEN Zero
    ELSE RDiv(RSub(total_positive, total_negative),
              RAdd(total_positive, total_negative))

\* SentimentLabel with the thresholds 0 in place of 0.1 and -0.1
SentimentLabel_ZeroThreshold(score) ==
    IF RLess(Zero, score) THEN "positive"
    ELSE IF RLess(score, Zero) THEN "negative"
    ELSE "neutral"

\* sentiment
SentimentLabel(score) ==
    IF RLess(<<1, 10>>, score) THEN "positive"
    ELSE IF RLess(score, <<-1, 10>>) THEN "negative"
    ELSE "neutral"

\* min(1.0, (total_positive + total_negative) / 5.0)
Emotionality(total_positive, total_negative) ==
    RMin(One, RDiv(RAdd(total_positive, total_negative), <<5, 1>>))

\* EmotionAnalyzer._analyze_sentence
EmotionAnalyzer_analyze_sentence(txt, seed) ==
    LET text_lower == Lower(txt)
        mult == intensity_multiplier(text_lower)
        total_positive == positive_score(txt, text_lower, mult)
        total_negative == negative_score(txt, text_lower, mult)
        score == SentimentScore(total_positive, total_negative)
    IN  [sentence_text    |-> txt,
         sentiment        |-> SentimentLabel(score),
         sentiment_score  |-> score,
         emotionality     |-> Emotionality(total_positive, total_negative),
         emotion_keywords |-> ListOfSet(emotion_keywords_list(txt, text_lower),
                                        seed)]

\* EmotionAnalyzer.analyze_emotions
analyze_emotions(sents, seed) ==
    [i \in 1..Len(sents) |-> EmotionAnalyzer_analyze_sentence(sents[i].text, seed)]

(***************************************************************************)
(* ArgumentClassifier.                                                     *)
(***************************************************************************)
\* sentiment_neutral_bonus rewarding only "positive" outside counters
sentiment_neutral_bonus_PositiveOnly(claim_result, emotion_result) ==
    IF claim_result.claim_type = "COUNTER"
    THEN (IF emotion_result.sentiment = "negative" THEN <<1, 5>> ELSE <<-1, 10>>)
    ELSE (IF emotion_result.sentiment = "positive" THEN <<1, 5>> ELSE <<-1, 10>>)

\* sentiment_neutral_bonus
sentiment_neutral_bonus(claim_result, emotion_result) ==
    IF claim_result.claim_type = "COUNTER"
    THEN (IF emotion_result.sentiment = "negative" THEN <<1, 5>> ELSE <<-1, 10>>)
    ELSE (IF emotion_result.sentiment \in {"positive", "neutral"}
          THEN <<1, 5>> ELSE <<-1, 10>>)

\* calculate_argument_strength without the floor of the emotionality factor
calculate_argument_strength_NoFloor(claim_result, emotion_result) ==
    LET confidence_factor == claim_result.confidence
        emotionality_penalty == RAbs(RSub(emotion_result.emotionality, <<3, 10>>))
        emotionality_factor == RSub(One, emotionality_penalty)
        bonus == sentiment_neutral_bonus(claim_result, emotion_result)
        strength == RAdd(RAdd(RMul(confidence_factor, <<1, 2>>),
                              RMul(emotionality_factor, <<3, 10>>)),
                         RMul(RAdd(<<1, 2>>, bonus), <<1, 5>>))
    IN  RMin(One, RMax(Zero, strength))

\* ArgumentClassifier._calculate_argument_strength
calculate_argument_strength(claim_result, emotion_result) ==
    LET confidence_factor == claim_result.confidence
        emotionality_penalty == RAbs(RSub(emotion_result.emotionality, <<3, 10>>))
        emotionality_factor == RMax(<<1, 2>>, RSub(One, emotionality_penalty))
        bonus == sentiment_neutral_bonus(claim_result, emotion_result)
        strength == RAdd(RAdd(RMul(confidence_factor, <<1, 2>>),
                              RMul(emotionality_factor, <<3, 10>>)),
                         RMul(RAdd(<<1, 2>>, bonus), <<1, 5>>))
    IN  RMin(One, RMax(Zero, strength))

\* ArgumentClassifier._combine_analyses
combine_analyses(claim_result, emotion_result) ==
    [sentence_text |-> claim_result.sentence_text,
     argument_type |-> claim_result.claim_type,
     confidence    |-> claim_result.confidence,
     sentiment     |-> emotion_result.sentiment,
     emotionality  |-> emotion_result.emotionality,
     keywords      |-> claim_result.markers \o emotion_result.emotion_keywords,
     strength      |-> calculate_argument_strength(claim_result, emotion_result)]

Min(a, b) == IF a < b THEN a ELSE b

\* the zip loop of classify_arguments
ZipCombine(crs, ers) ==
    [i \in 1..Min(Len(crs), Len(ers)) |-> combine_analyses(crs[i], ers[i])]

(***************************************************************************)
(* ArgumentClassifier.detect_logical_weaknesses.  A finding is the dict    *)
(* the code builds: a Python object with its type and its items; the       *)
(* German message texts are written without umlauts and without the        *)
(* check-mark sign.                                                        *)
(***************************************************************************)
\* a Python dict with the given items
PyDict(items) == [type |-> "dict", items |-> items]

AppealToEmotion ==
    PyDict([name |-> "Appeal to Emotion",
            description |-> "Argument basiert stark auf emotionaler Sprache statt auf Fakten.",
            strengthen |-> "Fuege konkrete Belege oder Statistiken hinzu und reduziere den emotionalen Tonfall.",
            counter_args |-> <<"Kritiker koennten argumentieren, dass dein Beitrag eher gefuehlsbetont als sachlich ist.">>,
            pro_args |-> <<"Unterstuetze die emotionale Aussage durch Umfragedaten oder persoenliche Erfahrungen als Beispiel.">>])

HastySuperlative ==
    PyDict([name |-> "Hasty Generalization",
            description |-> "Verwendet uebertriebene Ausdruecke und zieht zu schnelle Schlussfolgerungen.",
            strengthen |-> "Verwende genauere Formulierungen oder nenne Ausnahmen."])

AdHominem ==
    PyDict([name |-> "Ad Hominem",
            description |-> "Angriff auf die Person statt auf das Argument.",
            strengthen |-> "Fokussiere dich auf die inhaltliche Kritik und nicht auf den Sprecher.",
            counter_args |-> <<"Andere koennten behaupten, dass du unfair diskutierst, indem du den Gegner angreifst.">>,
            pro_args |-> <<"Unterstuetze deine Behauptung mit nachpruefbaren Fakten anstelle von Beschimpfungen.">>])

HastyGeneralization ==
    PyDict([name |-> "Hasty Generalization",
            description |-> "Zieht eine allgemeine Schlussfolgerung aus unzureichenden Beispielen.",
            strengthen |-> "Gib konkrete Beispiele oder sorge fuer breitere Datengrundlage.",
            counter_args |-> <<"Einige koennten anmerken, dass deine Beispiele nicht repraesentativ sind.">>,
            pro_args |-> <<"Ergaenze weitere Belege zur Unterstuetzung deiner Verallgemeinerung.">>])

CircularReasoning ==
    PyDict([name |-> "Circular Reasoning",
            description |-> "Das Argument benutzt seine eigene Schlussfolgerung als Praemisse.",
            strengthen |-> "Fuehre unabhaengige Beweise oder Argumente an, die deine Aussage stuetzen."])

AppealToBelief ==
    PyDict([name |-> "Appeal to Belief",
            description |-> "Stuetzt sich mehr auf Glauben als auf ueberpruefbare Fakten.",
            strengthen |-> "Liefern Sie empirische Daten oder Quellen anstelle einer blossen Behauptung.",
            counter_args |-> <<"Ein Gegner koennte sagen, dass dein Glaube keine Beweise liefert.">>,
            pro_args |-> <<"Fuege Studien oder Expertenzitate hinzu, um die Glaubensaussage zu untermauern.">>])

NoWeakness ==
    PyDict([name |-> "None",
            description |-> "Keine offensichtlichen Schwaechen erkannt",
            strengthen |-> "Dein Argument erscheint logisch solide - weiter so!"])

superlatives == <<"absolutely", "definitely", "certainly", "obviously", "clearly">>

ad_hominem_words == <<"stupid", "idiot", "fool", "moron", "ignorant">>

generalization_words == <<"all", "never", "always", "everybody", "nobody">>

\* str.count(sub): the non-overlapping occurrences of sub, from the left
RECURSIVE StrCount(_, _)
StrCount(s, sub) ==
    IF Len(s) < Len(sub) THEN 0
    ELSE IF SubSeq(s, 1, Len(sub)) = sub
         THEN 1 + StrCount(SubSeq(s, Len(sub) + 1, Len(s)), sub)
         ELSE StrCount(SubSeq(s, 2, Len(s)), sub)

\* sum(1 for s in words if s in text_lower)
CountPresent(words, text_lower) ==
    Cardinality({i \in 1..Len(words) : Contains(text_lower, words[i])})

\* any(word in text_lower for word in words)
AnyPresent(words, text_lower) ==
    \E i \in 1..Len(words) : Contains(text_lower, words[i])

\* add appending every entry, also one whose name is already there
add_NoDedup(fb, entry) == Append(fb, entry)

\* the local function add(entry) of detect_logical_weaknesses
add(fb, entry) ==
    IF \E i \in 1..Len(fb) : fb[i].items.name = entry.items.name
    THEN fb
    ELSE Append(fb, entry)

\* WithSentinel appending the "None" finding unconditionally
WithSentinel_Always(fb) == Append(fb, NoWeakness)

\* "if not feedback: feedback.append({... "None" ...})"
WithSentinel(fb) == IF fb = <<>> THEN Append(fb, NoWeakness) ELSE fb

\* ArgumentClassifier.detect_logical_weaknesses
detect_logical_weaknesses(classification) ==
    LET text_lower == Lower(classification.sentence_text)
        f0 == <<>>
        f1 == IF RLess(<<7, 10>>, classification.emotionality)
              THEN add(f0, AppealToEmotion) ELSE f0
        superlative_count == CountPresent(superlatives, text_lower)
        f2 == IF superlative_count >= 2 THEN add(f1, HastySuperlative) ELSE f1
        f3 == IF AnyPresent(ad_hominem_words, text_lower)
              THEN add(f2, AdHominem) ELSE f2
        f4 == IF AnyPresent(generalization_words, text_lower)
              THEN add(f3, HastyGeneralization) ELSE f3
        f5 == IF Contains(text_lower, "is") /\ StrCount(text_lower, "is") > 2
              THEN add(f4, CircularReasoning) ELSE f4
        f6 == IF classification.argument_type = "SUPPORT"
                 /\ Contains(text_lower, "believe")
              THEN add(f5, AppealToBelief) ELSE f5
    IN  WithSentinel(f6)

(***************************************************************************)
(* TextPreprocessor, fallback mode.                                        *)
(***************************************************************************)
IsTerminator(c) == InChars(c, Terminators)

\* FindSentences returning what follows the last terminator as well
RECURSIVE FindSentences_WithTail(_)
FindSentences_WithTail(s) ==
    IF \E k \in 1..Len(s) : IsTerminator(CharAt(s, k))
    THEN LET k == CHOOSE j \in 1..Len(s) :
                    /\ IsTerminator(CharAt(s, j))
                    /\ \A i \in 1..(j - 1) : ~IsTerminator(CharAt(s, i))
         IN  <<SubSeq(s, 1, k)>>
                 \o FindSentences_WithTail(SubSeq(s, k + 1, Len(s)))
    ELSE IF s = "" THEN <<>> ELSE <<s>>

\* FindSentences taking a run of terminators into one match
RECURSIVE FindSentences_Greedy(_)
FindSentences_Greedy(s) ==
    IF \E k \in 1..Len(s) : IsTerminator(CharAt(s, k))
    THEN LET k == CHOOSE j \in 1..Len(s) :
                    /\ IsTerminator(CharAt(s, j))
                    /\ \E f \in 1..j :
                          /\ \A i \in 1..(f - 1) :
                                ~IsTerminator(CharAt(s, i))
                          /\ \A i \in f..j : IsTerminator(CharAt(s, i))
                    /\ (j = Len(s) \/ ~IsTerminator(CharAt(s, j + 1)))
         IN  <<SubSeq(s, 1, k)>>
                 \o FindSentences_Greedy(SubSeq(s, k + 1, Len(s)))
    ELSE <<>>

\* re.findall(r'[^.!?]*[.!?]', text): every match ends at the next
\* terminator; what follows the last terminator matches nothing
RECURSIVE FindSentences(_)
FindSentences(s) ==
    IF \E k \in 1..Len(s) : IsTerminator(CharAt(s, k))
    THEN LET k == CHOOSE j \in 1..Len(s) :
                    /\ IsTerminator(CharAt(s, j))
                    /\ \A i \in 1..(j - 1) : ~IsTerminator(CharAt(s, i))
         IN  <<SubSeq(s, 1, k)>> \o FindSentences(SubSeq(s, k + 1, Len(s)))
    ELSE <<>>

\* \w
IsWordChar(c) == InChars(c, LowerAlpha \o UpperAlpha \o Digits)

\* re.findall(r'\w+', s): the maximal runs of word characters
RECURSIVE FindWords(_)
FindWords(s) ==
    IF s = "" THEN <<>>
    ELSE IF ~IsWordChar(CharAt(s, 1)) THEN FindWords(SubSeq(s, 2, Len(s)))
    ELSE LET n == CHOOSE j \in 1..Len(s) :
                    /\ \A i \in 1..j : IsWordChar(CharAt(s, i))
                    /\ (j = Len(s) \/ ~IsWordChar(CharAt(s, j + 1)))
         IN  <<SubSeq(s, 1, n)>> \o FindWords(SubSeq(s, n + 1, Len(s)))

\* Token(text=word, pos="UNKNOWN", lemma=word, dep="UNKNOWN") per word
FallbackTokens(sent_text) ==
    LET word_tokens == FindWords(Lower(sent_text))
    IN  [i \in 1..Len(word_tokens) |->
            [text |-> word_tokens[i], pos |-> "UNKNOWN",
             lemma |-> word_tokens[i], dep |-> "UNKNOWN"]]

\* FallbackLoop numbering the sentences from 1
RECURSIVE FallbackLoop_OneBased(_, _, _)
FallbackLoop_OneBased(sent_texts, i, acc) ==
    IF i > Len(sent_texts) THEN acc
    ELSE LET sent_text == Strip(sent_texts[i])
         IN  IF sent_text = ""
             THEN FallbackLoop_OneBased(sent_texts, i + 1, acc)
             ELSE FallbackLoop_OneBased(sent_texts, i + 1,
                    Append(acc, [text   |-> sent_text,
                                 tokens |-> FallbackTokens(sent_text),
                                 doc_id |-> i]))

\* the loop "for sent_idx, sent_text in enumerate(sent_texts)" from
\* position i (1-based, sent_idx = i - 1) on
RECURSIVE FallbackLoop(_, _, _)
FallbackLoop(sent_texts, i, acc) ==
    IF i > Len(sent_texts) THEN acc
    ELSE LET sent_text == Strip(sent_texts[i])
         IN  IF sent_text = ""
             THEN FallbackLoop(sent_texts, i + 1, acc)
             ELSE FallbackLoop(sent_texts, i + 1,
                    Append(acc, [text   |-> sent_text,
                                 tokens |-> FallbackTokens(sent_text),
                                 doc_id |-> i - 1]))

\* TextPreprocessor._process_with_fallback
process_with_fallback(txt) == FallbackLoop(FindSentences(txt), 1, <<>>)

(***************************************************************************)
(* TextPreprocessor, spaCy mode.  doc is what the call self.nlp(text)      *)
(* returns: the sequence doc.sents, each sent with its text and tokens.    *)
(***************************************************************************)
\* TextPreprocessor._process_with_spacy, given doc = self.nlp(text)
process_with_spacy(doc) ==
    [sent_idx \in 1..Len(doc) |->
        [text   |-> doc[sent_idx].text,
         tokens |-> [k \in 1..Len(doc[sent_idx].tokens) |->
                        [text  |-> doc[sent_idx].tokens[k].text,
                         pos   |-> doc[sent_idx].tokens[k].pos_,
                         lemma |-> doc[sent_idx].tokens[k].lemma_,
                         dep   |-> doc[sent_idx].tokens[k].dep_]],
         doc_id |-> sent_idx - 1]]

(***************************************************************************)
(* StructureBuilder.                                                       *)
(***************************************************************************)
\* parent = None
None == -1

\* max() of a non-empty set of integers
MaxOf(S) == CHOOSE m \in S : \A x \in S : x <= m

\* the ArgumentNode with id n of a node list (ids are list positions)
NodeAt(ns, n) == ns[n + 1]

\* add_child leaving the parent of a child that already has one
add_child_KeepFirstParent(ns, claim, child) ==
    [i \in 1..Len(ns) |->
        LET a == IF i = claim + 1
                 THEN [ns[i] EXCEPT !.children = Append(@, child)]
                 ELSE ns[i]
        IN  IF i = child + 1 /\ a.parent = None
            THEN [a EXCEPT !.parent = claim] ELSE a]

\* ArgumentNode.add_child, on the nodes with ids claim and child
add_child(ns, claim, child) ==
    [i \in 1..Len(ns) |->
        LET a == IF i = claim + 1
                 THEN [ns[i] EXCEPT !.children = Append(@, child)]
                 ELSE ns[i]
        IN  IF i = child + 1 THEN [a EXCEPT !.parent = claim] ELSE a]

\* Attaches for every other node, earlier ones included
Attaches_AnyPosition(ns, claim, other) ==
    NodeAt(ns, other).id /= NodeAt(ns, claim).id

\* Attaches only for nodes no earlier claim has taken
Attaches_Exclusive(ns, claim, other) ==
    /\ NodeAt(ns, other).id > NodeAt(ns, claim).id
    /\ NodeAt(ns, other).parent = None

\* the condition under which a claim takes a support or counter as child
Attaches(ns, claim, other) == NodeAt(ns, other).id > NodeAt(ns, claim).id

\* "for support in supports" / "for counter in counters" from position i on
RECURSIVE AttachLoop(_, _, _, _)
AttachLoop(ns, claim, others, i) ==
    IF i > Len(others) THEN ns
    ELSE AttachLoop(IF Attaches(ns, claim, others[i])
                    THEN add_child(ns, claim, others[i])
                    ELSE ns,
                    claim, others, i + 1)

\* ClaimLoop offering the later claims to a claim as well
RECURSIVE ClaimLoop_Nested(_, _, _, _, _)
ClaimLoop_Nested(ns, claims, supports, counters, i) ==
    IF i > Len(claims) THEN ns
    ELSE ClaimLoop_Nested(
             AttachLoop(AttachLoop(ns, claims[i], claims \o supports, 1),
                        claims[i], counters, 1),
             claims, supports, counters, i + 1)

\* "for claim in claims" from position i on
RECURSIVE ClaimLoop(_, _, _, _, _)
ClaimLoop(ns, claims, supports, counters, i) ==
    IF i > Len(claims) THEN ns
    ELSE ClaimLoop(AttachLoop(AttachLoop(ns, claims[i], supports, 1),
                              claims[i], counters, 1),
                   claims, supports, counters, i + 1)

\* MaxByStrength keeping the last of several maxima
RECURSIVE MaxByStrength_Last(_, _, _, _)
MaxByStrength_Last(ns, ids, i, best) ==
    IF i > Len(ids) THEN best
    ELSE MaxByStrength_Last(ns, ids, i + 1,
            IF RLeq(NodeAt(ns, best).strength, NodeAt(ns, ids[i]).strength)
            THEN ids[i] ELSE best)

\* max(ids, key=lambda n: n.strength) from position i on: the first maximum
RECURSIVE MaxByStrength(_, _, _, _)
MaxByStrength(ns, ids, i, best) ==
    IF i > Len(ids) THEN best
    ELSE MaxByStrength(ns, ids, i + 1,
            IF RLess(NodeAt(ns, best).strength, NodeAt(ns, ids[i]).strength)
            THEN ids[i] ELSE best)

\* the nodes list built from the classifications
MakeNodes(cls) ==
    [i \in 1..Len(cls) |->
        [id           |-> i - 1,
         text         |-> cls[i].sentence_text,
         arg_type     |-> cls[i].argument_type,
         strength     |-> cls[i].strength,
         emotionality |-> cls[i].emotionality,
         children     |-> <<>>,
         parent       |-> None]]

\* [n for n in nodes if n.arg_type == t], as ids
IdsOfType(ns, t) ==
    LET sel == SelectSeq(ns, LAMBDA n : n.arg_type = t)
    IN  [i \in 1..Len(sel) |-> sel[i].id]

\* ClaimsOf promoting the strongest support even when claims exist
ClaimsOf_AlwaysPromote(ns) ==
    LET claims == IdsOfType(ns, "CLAIM")
        supports == IdsOfType(ns, "SUPPORT")
    IN  IF supports /= <<>>
        THEN claims \o <<MaxByStrength(ns, supports, 2, supports[1])>>
        ELSE claims

\* claims after the promotion step
ClaimsOf(ns) ==
    LET claims == IdsOfType(ns, "CLAIM")
        supports == IdsOfType(ns, "SUPPORT")
    IN  IF claims = <<>> /\ supports /= <<>>
        THEN <<MaxByStrength(ns, supports, 2, supports[1])>>
        ELSE claims

\* StructureBuilder.build_structure: the resulting [nodes, root_claims]
build_structure(cls) ==
    LET ns == MakeNodes(cls)
        claims == ClaimsOf(ns)
    IN  [nodes |-> ClaimLoop(ns, claims, IdsOfType(ns, "SUPPORT"),
                             IdsOfType(ns, "COUNTER"), 1),
         root_claims |-> claims]

\* StructureBuilder._calculate_depth of the node with id n
RECURSIVE calculate_depth(_, _)
calculate_depth(ns, n) ==
    IF NodeAt(ns, n).children = <<>> THEN 1
    ELSE 1 + MaxOf({calculate_depth(ns, NodeAt(ns, n).children[k]) :
                        k \in 1..Len(NodeAt(ns, n).children)})

\* the loop "for claim in self.root_claims" of get_tree_stats from position
\* i on, max_depth so far
RECURSIVE DepthLoop(_, _, _, _)
DepthLoop(ns, roots, i, max_depth) ==
    IF i > Len(roots) THEN max_depth
    ELSE LET depth == calculate_depth(ns, roots[i])
         IN  DepthLoop(ns, roots, i + 1,
                       IF depth > max_depth THEN depth ELSE max_depth)

\* sum(n.strength for n in self.nodes)
RECURSIVE SumStrength(_)
SumStrength(ns) ==
    IF ns = <<>> THEN Zero ELSE RAdd(ns[1].strength, SumStrength(Tail(ns)))

\* sum(1 for n in self.nodes if n.arg_type == t)
CountType(ns, t) == Len(SelectSeq(ns, LAMBDA n : n.arg_type = t))

\* get_tree_stats with max_depth starting at 1
get_tree_stats_DepthFromOne(ns, roots) ==
    [total_nodes     |-> Len(ns),
     total_claims    |-> CountType(ns, "CLAIM"),
     total_supports  |-> CountType(ns, "SUPPORT"),
     total_counters  |-> CountType(ns, "COUNTER"),
     avg_strength    |-> IF Len(ns) > 0
                         THEN RDiv(SumStrength(ns), <<Len(ns), 1>>)
                         ELSE Zero,
     max_depth       |-> DepthLoop(ns, roots, 1, 1),
     num_root_claims |-> Len(roots)]

\* get_tree_stats dividing by total_nodes without the "if total_nodes > 0"
get_tree_stats_UnguardedAverage(ns, roots) ==
    IF Len(ns) = 0 THEN [raised |-> "ZeroDivisionError"]
    ELSE [total_nodes     |-> Len(ns),
          total_claims    |-> CountType(ns, "CLAIM"),
          total_supports  |-> CountType(ns, "SUPPORT"),
          total_counters  |-> CountType(ns, "COUNTER"),
          avg_strength    |-> RDiv(SumStrength(ns), <<Len(ns), 1>>),
          max_depth       |-> DepthLoop(ns, roots, 1, 0),
          num_root_claims |-> Len(roots)]

\* get_tree_stats counting the roots as claims
get_tree_stats_RootsAsClaims(ns, roots) ==
    [total_nodes     |-> Len(ns),
     total_claims    |-> Len(roots),
     total_supports  |-> CountType(ns, "SUPPORT") -
                             Len(SelectSeq(roots, LAMBDA r :
                                     NodeAt(ns, r).arg_type = "SUPPORT")),
     total_counters  |-> CountType(ns, "COUNTER"),
     avg_strength    |-> IF Len(ns) > 0
                         THEN RDiv(SumStrength(ns), <<Len(ns), 1>>)
                         ELSE Zero,
     max_depth       |-> DepthLoop(ns, roots, 1, 0),
     num_root_claims |-> Len(roots)]

\* StructureBuilder.get_tree_stats
get_tree_stats(ns, roots) ==
    [total_nodes     |-> Len(ns),
     total_claims    |-> CountType(ns, "CLAIM"),
     total_supports  |-> CountType(ns, "SUPPORT"),
     total_counters  |-> CountType(ns, "COUNTER"),
     avg_strength    |-> IF Len(ns) > 0
                         THEN RDiv(SumStrength(ns), <<Len(ns), 1>>)
                         ELSE Zero,
     max_depth       |-> DepthLoop(ns, roots, 1, 0),
     num_root_claims |-> Len(roots)]

(***************************************************************************)
(* Inputs.                                                                 *)
(***************************************************************************)
\* pieces the input texts of the pipeline are assembled from
Fragments ==
    {"good ", "but bad", "i believe ", "because ", "THUS ", " ", ".", "!", "? "}

\* pieces the sentence texts handed directly to classify_arguments are
\* assembled from
SentenceFragments ==
    {"good ", "but ", "because ", "i believe ", "So ", "!", "VERY BAD ",
     "very awful evil hate lies worst "}

RECURSIVE ConcatAll(_)
ConcatAll(f) == IF f = <<>> THEN "" ELSE f[1] \o ConcatAll(Tail(f))

TextsOf(frags, max) ==
    {ConcatAll(f) : f \in UNION {[1..n -> frags] : n \in 0..max}}

HashSeeds == {0, 1}

ArgTypes == {"CLAIM", "SUPPORT", "COUNTER", "NEUTRAL"}

\* strengths of the classifications handed directly to build_structure
Strengths == {<<1, 4>>, <<1, 2>>, <<3, 4>>}

ClassificationInputs ==
    {[sentence_text |-> "s", argument_type |-> t, confidence |-> Zero,
      sentiment |-> "neutral", emotionality |-> Zero, keywords |-> <<>>,
      strength |-> s] : t \in ArgTypes, s \in Strengths}

\* pieces the sentence texts of the classifications handed directly to
\* detect_logical_weaknesses are assembled from
WeaknessFragments ==
    {"absolutely clearly ", "obviously ", "Stupid ", "ALL ", "this is his ",
     "is ", "i believe "}

\* emotionality values on both sides of the 0.7 threshold, and on it
Emotionalities == {<<1, 2>>, <<7, 10>>, <<4, 5>>}

WeaknessInputs ==
    {[sentence_text |-> t, argument_type |-> a, confidence |-> <<1, 2>>,
      sentiment |-> "neutral", emotionality |-> e, keywords |-> <<>>,
      strength |-> <<1, 2>>] :
        t \in TextsOf(WeaknessFragments, MaxWeakFrags),
        a \in {"SUPPORT", "COUNTER"}, e \in Emotionalities}

\* sentence spans the external tokenizer may return
SpanInputs ==
    {[text |-> "Good.",
      tokens |-> <<[text |-> "Good", pos_ |-> "ADJ", lemma_ |-> "good",
                    dep_ |-> "ROOT"],
                   [text |-> ".", pos_ |-> "PUNCT", lemma_ |-> ".",
                    dep_ |-> "punct"]>>],
     [text |-> "But bad",
      tokens |-> <<[text |-> "But", pos_ |-> "CCONJ", lemma_ |-> "but",
                    dep_ |-> "cc"],
                   [text |-> "bad", pos_ |-> "ADJ", lemma_ |-> "bad",
                    dep_ |-> "ROOT"]>>]}

\* what self.nlp(text) may return when it returns
Docs == UNION {[1..n -> SpanInputs] : n \in 0..2}

ClassificationSeqs ==
    UNION {[1..n -> ClassificationInputs] : n \in 0..MaxCls}

(***************************************************************************)
(* The pipeline as a state machine.                                        *)
(***************************************************************************)
InitCommon ==
    /\ sentences = <<>>
    /\ claim_results = <<>>
    /\ emotion_results = <<>>
    /\ nodes = <<>>
    /\ root_claims = <<>>
    /\ tree_stats = <<>>
    /\ feedback = <<>>
    /\ previous_runs = <<>>
    /\ strongest_arguments = <<>>
    /\ summary = <<>>
    /\ strongest_path = <<>>
    /\ counter_pairs = <<>>
    /\ earlier_nodes = <<>>

\* main.py: a text is read, then process_text, classify_arguments and
\* build_structure are called in turn
Init ==
    /\ text \in TextsOf(Fragments, MaxFrags)
    /\ hash_seed \in HashSeeds
    /\ classifications = <<>>
    /\ nlp = "None"
    /\ pc = "start"
    /\ InitCommon

\* a caller that hands one Sentence of its own to classify_arguments
InitSentence ==
    /\ text \in TextsOf(SentenceFragments, MaxWords)
    /\ hash_seed \in HashSeeds
    /\ classifications = <<>>
    /\ nlp = "None"
    /\ pc = "sentence"
    /\ InitCommon

\* a caller that hands classifications of its own to build_structure
InitBuild ==
    /\ text = ""
    /\ hash_seed = 0
    /\ classifications \in ClassificationSeqs
    /\ nlp = "None"
    /\ pc = "classified"
    /\ InitCommon

\* a caller that hands one classification of its own to
\* detect_logical_weaknesses
InitWeakness ==
    /\ text = ""
    /\ hash_seed = 0
    /\ classifications \in {<<c>> : c \in WeaknessInputs}
    /\ nlp = "None"
    /\ pc = "weakness_input"
    /\ InitCommon

\* a TextPreprocessor whose __init__ found no tokenizer ("None"), loaded one
\* ("loaded"), or loaded one whose call raises ("failing")
InitRich ==
    /\ text \in TextsOf(Fragments, MaxFrags)
    /\ hash_seed = 0
    /\ classifications = <<>>
    /\ nlp \in {"None", "loaded", "failing"}
    /\ pc = "start"
    /\ InitCommon

\* TextPreprocessor.process_text (self.nlp is set: _process_with_spacy);
\* an exception of self.nlp(text) leaves process_text
ProcessTextRich ==
    /\ pc = "start"
    /\ nlp /= "None"
    /\ \/ /\ nlp = "failing"
          /\ pc' = "raised"
          /\ UNCHANGED sentences
       \/ /\ nlp = "loaded"
          /\ \E doc \in Docs : sentences' = process_with_spacy(doc)
          /\ pc' = "segmented"
    /\ UNCHANGED <<text, hash_seed, claim_results, emotion_results,
                   classifications, nodes, root_claims, nlp, tree_stats,
                   feedback, previous_runs, query_vars>>

\* TextPreprocessor.process_text (self.nlp is None: fallback mode)
ProcessText ==
    /\ pc = "start"
    /\ nlp = "None"
    /\ sentences' = process_with_fallback(text)
    /\ pc' = "segmented"
    /\ UNCHANGED <<text, hash_seed, claim_results, emotion_results,
                   classifications, nodes, root_claims, nlp, tree_stats,
                   feedback, previous_runs, query_vars>>

\* ArgumentClassifier.classify_arguments(sents)
classify_arguments(sents) ==
    /\ claim_results' = detect_claims(sents)
    /\ emotion_results' = analyze_emotions(sents, hash_seed)
    /\ classifications' = ZipCombine(claim_results', emotion_results')

ClassifyArguments ==
    /\ pc = "segmented"
    /\ classify_arguments(sentences)
    /\ pc' = "classified"
    /\ UNCHANGED <<text, hash_seed, sentences, nodes, root_claims, nlp,
                   tree_stats, feedback, previous_runs, query_vars>>

\* classify_arguments on the single sentence Sentence(text, [], 0)
ClassifySentence ==
    /\ pc = "sentence"
    /\ sentences' = <<[text |-> text, tokens |-> <<>>, doc_id |-> 0]>>
    /\ classify_arguments(sentences')
    /\ pc' = "classified_sentence"
    /\ UNCHANGED <<text, hash_seed, nodes, root_claims, nlp, tree_stats,
                   feedback, previous_runs, query_vars>>

\* StructureBuilder.build_structure(classifications)
BuildStructure ==
    /\ pc = "classified"
    /\ nodes' = build_structure(classifications).nodes
    /\ root_claims' = build_structure(classifications).root_claims
    /\ pc' = "built"
    /\ UNCHANGED <<text, hash_seed, sentences, claim_results,
                   emotion_results, classifications, nlp, tree_stats,
                   feedback, previous_runs, query_vars>>

\* StructureBuilder.get_tree_stats()
GetTreeStats ==
    /\ pc = "built"
    /\ tree_stats' = get_tree_stats(nodes, root_claims)
    /\ pc' = "stats"
    /\ UNCHANGED <<text, hash_seed, sentences, claim_results,
                   emotion_results, classifications, nodes, root_claims, nlp,
                   feedback, previous_runs, query_vars>>

\* "while current.children": descend to the strongest child until a node
\* without children is reached
RECURSIVE PathLoop(_, _, _)
PathLoop(ns, current, path) ==
    LET children == NodeAt(ns, current).children
    IN  IF children = <<>> THEN path
        ELSE LET strongest_child ==
                     MaxByStrength(ns, children, 2, children[1])
             IN  PathLoop(ns, strongest_child, Append(path, strongest_child))

\* get_strongest_path starting at the first root
get_strongest_path_FirstRoot(ns, roots) ==
    IF roots = <<>> THEN <<>>
    ELSE PathLoop(ns, roots[1], <<roots[1]>>)

\* StructureBuilder.get_strongest_path(), as ids
get_strongest_path(ns, roots) ==
    IF roots = <<>> THEN <<>>
    ELSE LET strongest_root == MaxByStrength(ns, roots, 2, roots[1])
         IN  PathLoop(ns, strongest_root, <<strongest_root>>)

\* "for child in claim.children" from position i on
RECURSIVE CounterLoop(_, _, _, _)
CounterLoop(ns, claim, i, pairs) ==
    LET children == NodeAt(ns, claim).children
    IN  IF i > Len(children) THEN pairs
        ELSE CounterLoop(ns, claim, i + 1,
                 IF NodeAt(ns, children[i]).arg_type = "COUNTER"
                 THEN Append(pairs, <<claim, children[i]>>)
                 ELSE pairs)

\* "for claim in self.root_claims" from position i on
RECURSIVE PairLoop(_, _, _, _)
PairLoop(ns, roots, i, pairs) ==
    IF i > Len(roots) THEN pairs
    ELSE PairLoop(ns, roots, i + 1, CounterLoop(ns, roots[i], 1, pairs))

\* StructureBuilder.get_counterargument_pairs(), as pairs of ids
get_counterargument_pairs(ns, roots) == PairLoop(ns, roots, 1, <<>>)

\* StructureBuilder.get_strongest_path()
GetStrongestPath ==
    /\ pc = "built"
    /\ strongest_path' = get_strongest_path(nodes, root_claims)
    /\ pc' = "path"
    /\ UNCHANGED <<text, hash_seed, sentences, claim_results,
                   emotion_results, classifications, nodes, root_claims, nlp,
                   tree_stats, feedback, previous_runs, strongest_arguments,
                   summary, counter_pairs, earlier_nodes>>

\* StructureBuilder.get_counterargument_pairs()
GetCounterargumentPairs ==
    /\ pc = "built"
    /\ counter_pairs' = get_counterargument_pairs(nodes, root_claims)
    /\ pc' = "pairs"
    /\ UNCHANGED <<text, hash_seed, sentences, claim_results,
                   emotion_results, classifications, nodes, root_claims, nlp,
                   tree_stats, feedback, previous_runs, strongest_arguments,
                   summary, strongest_path, earlier_nodes>>

\* the program is started once more on the same text: a new interpreter
\* process with a string hash seed of its own and newly constructed objects
RunAgain ==
    /\ pc = "classified"
    /\ previous_runs = <<>>
    /\ previous_runs' = Append(previous_runs, classifications)
    /\ hash_seed' \in HashSeeds
    /\ sentences' = <<>>
    /\ claim_results' = <<>>
    /\ emotion_results' = <<>>
    /\ classifications' = <<>>
    /\ pc' = "start"
    /\ UNCHANGED <<text, nodes, root_claims, nlp, tree_stats, feedback,
                   query_vars>>

Next == ProcessText \/ ClassifyArguments \/ BuildStructure \/ GetTreeStats

Spec == Init /\ [][Next]_vars

\* ArgumentClassifier.detect_logical_weaknesses(classifications[0])
DetectLogicalWeaknesses ==
    /\ pc = "weakness_input"
    /\ feedback' = detect_logical_weaknesses(classifications[1])
    /\ pc' = "weaknesses"
    /\ UNCHANGED <<text, hash_seed, sentences, claim_results,
                   emotion_results, classifications, nodes, root_claims, nlp,
                   tree_stats, previous_runs, query_vars>>

NextWeakness == DetectLogicalWeaknesses

SpecWeakness == InitWeakness /\ [][NextWeakness]_vars

NextRich == ProcessText \/ ProcessTextRich

SpecRich == InitRich /\ [][NextRich]_vars

NextTwice == ProcessText \/ ClassifyArguments \/ RunAgain

SpecTwice == Init /\ [][NextTwice]_vars

NextSentence == ClassifySentence

SpecSentence == InitSentence /\ [][NextSentence]_vars

NextBuild ==
    \/ BuildStructure
    \/ GetTreeStats
    \/ GetStrongestPath
    \/ GetCounterargumentPairs

SpecBuild == InitBuild /\ [][NextBuild]_vars

TypeOK ==
    /\ pc \in {"start", "segmented", "classified", "built", "stats",
               "sentence", "classified_sentence", "weakness_input",
               "weaknesses", "raised", "strongest", "summarised", "path",
               "pairs", "new", "new_stats", "new_path", "new_pairs",
               "rebuilt", "rebuilt_stats", "rebuilt_path", "rebuilt_pairs"}
    /\ Len(claim_results) = Len(emotion_results)

(***************************************************************************)
(* Properties.                                                             *)
(***************************************************************************)
Classified == pc \in {"classified", "built", "stats", "classified_sentence"}

Built == pc \in {"built", "stats", "path", "pairs"}

\* C1: classify_arguments applied to the sentences returned by process_text
\* yields exactly one classification per sentence, in the same order: the
\* lengths agree and the i-th classification carries the i-th sentence's text.
C1_OneClassificationPerSentence ==
    Classified =>
        /\ Len(classifications) = Len(sentences)
        /\ \A i \in 1..Len(sentences) :
              classifications[i].sentence_text = sentences[i].text

\* a text of several different sentences has been classified
C1_Witness ==
    /\ pc = "classified"
    /\ Len(classifications) >= 2
    /\ \E i, j \in 1..Len(sentences) : sentences[i].text /= sentences[j].text
    /\ \E i \in 1..Len(classifications) :
          classifications[i].argument_type = "NEUTRAL"

\* C2: after build_structure every node in a children list has an id
\* strictly greater than the id of the node owning the list, and every node
\* with a parent back-reference has an id strictly greater than its parent's.
C2_ChildrenAfterParent ==
    Built =>
        \A i \in 1..Len(nodes) :
            /\ \A k \in 1..Len(nodes[i].children) :
                  NodeAt(nodes, nodes[i].children[k]).id > nodes[i].id
            /\ nodes[i].parent /= None =>
                  nodes[i].id > NodeAt(nodes, nodes[i].parent).id

\* a tree with a claim that is preceded by a support and followed by one
C2_Witness ==
    /\ Built
    /\ \E i, j, k \in 1..Len(nodes) :
          /\ i < j /\ j < k
          /\ nodes[i].arg_type = "SUPPORT" /\ nodes[i].parent = None
          /\ nodes[j].arg_type = "CLAIM" /\ nodes[j].children /= <<>>
          /\ nodes[k].parent = nodes[j].id

\* C3: for every sentence the emitted strength and confidence lie in [0, 1]
\* and the emitted sentiment_score lies in [-1, 1].
C3_RangesHold ==
    Classified =>
        \A i \in 1..Len(classifications) :
            /\ RLeq(Zero, classifications[i].strength)
            /\ RLeq(classifications[i].strength, One)
            /\ RLeq(Zero, classifications[i].confidence)
            /\ RLeq(classifications[i].confidence, One)
            /\ RLeq(<<-1, 1>>, emotion_results[i].sentiment_score)
            /\ RLeq(emotion_results[i].sentiment_score, One)

\* a sentence matching several markers of one lexicon, with the sentiment
\* score at an end of its range, has been classified
C3_Witness ==
    /\ pc = "classified_sentence"
    /\ Len(claim_results[1].markers) >= 2
    /\ emotion_results[1].sentiment_score = <<-1, 1>>
    /\ emotion_results[1].emotionality = One

\* the three marker lexicons in the order CLAIM, SUPPORT, COUNTER
LexiconOrder == <<"CLAIM", "SUPPORT", "COUNTER">>

\* per lexicon LexiconOrder[t], the positions of its phrases that occur as
\* substrings of the lower-cased sentence text txt
PresentIn(markers, tl) ==
    {j \in 1..Len(markers) : Contains(tl, markers[j][1])}

PresentPhrases(txt) ==
    LET tl == Lower(txt)
    IN  <<PresentIn(all_markers.CLAIM, tl), PresentIn(all_markers.SUPPORT, tl),
          PresentIn(all_markers.COUNTER, tl)>>

RECURSIVE WeightSum(_, _)
WeightSum(t, js) ==
    IF js = {} THEN 0
    ELSE LET j == CHOOSE x \in js : TRUE
         IN  all_markers[LexiconOrder[t]][j][2] + WeightSum(t, js \ {j})

\* per lexicon, the arithmetic mean of its matched weights, 0 without match
MeanOf(t, js) ==
    IF js = {} THEN Zero
    ELSE Reduce(<<WeightSum(t, js), 100 * Cardinality(js)>>)

LexiconMeans(present) ==
    <<MeanOf(1, present[1]), MeanOf(2, present[2]), MeanOf(3, present[3])>>

\* lexicon t has the highest mean and every earlier lexicon a lower one
Wins(t, mean) ==
    /\ \A u \in 1..3 : RLeq(mean[u], mean[t])
    /\ \A u \in 1..(t - 1) : RLess(mean[u], mean[t])

\* the role result r of a sentence with text txt is as C4 states
C4_HoldsFor(r, txt) ==
    LET present == PresentPhrases(txt)
        mean == LexiconMeans(present)
    IN  \A t \in 1..3 :
            (present[t] /= {} /\ Wins(t, mean)) =>
                /\ r.claim_type = LexiconOrder[t]
                /\ r.confidence = mean[t]
                /\ Len(r.markers) = Cardinality(present[t])
                /\ {r.markers[k] : k \in 1..Len(r.markers)} =
                   {all_markers[LexiconOrder[t]][j][1] : j \in present[t]}

\* C4: the role detector labels a sentence with the lexicon whose mean of
\* matched weights is highest, the earlier of CLAIM, SUPPORT, COUNTER on
\* equal highest means; the confidence is that mean and the markers are
\* exactly the phrases of the winning lexicon occurring in the lower-cased
\* text.
C4_HighestMeanWins ==
    Classified =>
        \A i \in 1..Len(claim_results) :
            C4_HoldsFor(claim_results[i], sentences[i].text)

\* a sentence in which all three lexicons match with the same mean has
\* been labelled
C4_Witness ==
    /\ pc = "classified_sentence"
    /\ claim_results[1].claim_type = "CLAIM"
    /\ LET present == PresentPhrases(text)
           mean == LexiconMeans(present)
       IN  /\ \A t \in 1..3 : present[t] /= {}
           /\ mean[1] = mean[2]
           /\ mean[2] = mean[3]

\* C5: a sentence is labelled NEUTRAL if and only if no phrase of any of
\* the three lexicons occurs in its lower-cased text, and then confidence
\* is 0 and the markers list is empty.
C5_NeutralIffNoMatch ==
    Classified =>
        \A i \in 1..Len(claim_results) :
            /\ claim_results[i].claim_type = "NEUTRAL" <=>
                  LET present == PresentPhrases(sentences[i].text)
                  IN  \A t \in 1..3 : present[t] = {}
            /\ claim_results[i].claim_type = "NEUTRAL" =>
                  /\ claim_results[i].confidence = Zero
                  /\ claim_results[i].markers = <<>>

\* a non-empty sentence without any marker has been labelled NEUTRAL
C5_Witness ==
    /\ pc = "classified_sentence"
    /\ Len(text) > 3
    /\ claim_results[1].claim_type = "NEUTRAL"
    /\ classifications[1].keywords /= <<>>

\* the strength the formula of C6 gives for a classification c
C6_Formula(c) ==
    LET bonus == IF \/ c.argument_type = "COUNTER" /\ c.sentiment = "negative"
                    \/ c.argument_type /= "COUNTER"
                       /\ c.sentiment \in {"positive", "neutral"}
                 THEN <<2, 10>> ELSE <<-1, 10>>
        dist == IF RLess(c.emotionality, <<3, 10>>)
                THEN RSub(<<3, 10>>, c.emotionality)
                ELSE RSub(c.emotionality, <<3, 10>>)
        efac == IF RLess(RSub(One, dist), <<5, 10>>) THEN <<5, 10>>
                ELSE RSub(One, dist)
        raw == RAdd(RMul(c.confidence, <<5, 10>>),
                    RAdd(RMul(efac, <<3, 10>>),
                         RMul(RAdd(<<5, 10>>, bonus), <<2, 10>>)))
    IN  IF RLess(raw, Zero) THEN Zero
        ELSE IF RLess(One, raw) THEN One ELSE raw

\* C6: the strength of every classification equals
\* clamp(confidence*0.5 + max(0.5, 1 - |emotionality - 0.3|)*0.3
\*       + (0.5 + bonus)*0.2, 0, 1), bonus being 0.2 for a COUNTER with
\* sentiment "negative", 0.2 for a non-COUNTER with sentiment "positive" or
\* "neutral", and -0.1 otherwise.
C6_StrengthFormula ==
    Classified =>
        \A i \in 1..Len(classifications) :
            REq(classifications[i].strength, C6_Formula(classifications[i]))

\* a COUNTER sentence of negative sentiment has been classified
C6_Witness ==
    /\ pc = "classified_sentence"
    /\ classifications[1].argument_type = "COUNTER"
    /\ classifications[1].sentiment = "negative"
    /\ RLess(<<3, 10>>, classifications[1].emotionality)

\* the sum of weight * k(word) over the words of a lexicon, in hundredths,
\* for the entries at positions js
RECURSIVE WeightedCount(_, _, _, _)
WeightedCount(words, js, tl, perOccurrence) ==
    IF js = {} THEN 0
    ELSE LET j == CHOOSE x \in js : TRUE
             k == IF perOccurrence THEN CountOccurrences(tl, words[j][1])
                  ELSE 1
         IN  words[j][2] * k + WeightedCount(words, js \ {j}, tl, perOccurrence)

\* the total of one polarity for the sentence text txt: every lexicon word
\* occurring in the lower-cased text counts weight * multiplier, once or once
\* per occurrence; capitals and exclamation marks add their bonuses
PolarityTotal(words, txt, tl, mult, perOccurrence, perExclamation) ==
    LET js == {j \in 1..Len(words) : Contains(tl, words[j][1])}
        caps == IF CapsLock(txt) THEN RMul(<<3, 10>>, mult) ELSE Zero
        excl == RMul(perExclamation, <<exclamation_count(txt), 1>>)
    IN  RAdd(RMul(Pct(WeightedCount(words, js, tl, perOccurrence)), mult),
             RAdd(caps, excl))

\* the emotion result er of a sentence with text txt is the one that follows
\* from the polarity totals counted once per word or once per occurrence
C7_HoldsFor(er, txt, perOccurrence) ==
    LET tl == Lower(txt)
        mult == intensity_multiplier(tl)
        p == PolarityTotal(POSITIVE_WORDS, txt, tl, mult, perOccurrence,
                           <<1, 5>>)
        n == PolarityTotal(NEGATIVE_WORDS, txt, tl, mult, perOccurrence,
                           <<3, 20>>)
    IN  /\ positive_score(txt, tl, mult) = p
        /\ negative_score(txt, tl, mult) = n
        /\ er.emotionality = RMin(One, RMul(RAdd(p, n), <<1, 5>>))
        /\ REq(RMul(er.sentiment_score, RAdd(p, n)), RSub(p, n))

\* C7 as stated: every occurrence of a positive or negative lexicon word
\* contributes weight * multiplier to its polarity's total, a word occurring
\* k times contributes k times that amount.
C7_PerOccurrence ==
    Classified =>
        \A i \in 1..Len(emotion_results) :
            C7_HoldsFor(emotion_results[i], sentences[i].text, TRUE)

\* C7 as amended: every positive or negative lexicon word that occurs in the
\* lower-cased sentence contributes weight * multiplier to its polarity's
\* total exactly once, however many times it occurs.
C7_OncePerWord ==
    Classified =>
        \A i \in 1..Len(emotion_results) :
            C7_HoldsFor(emotion_results[i], sentences[i].text, FALSE)

\* a sentence in which a lexicon word occurs more than once has been scored
C7_Witness ==
    /\ pc = "classified_sentence"
    /\ \E j \in 1..Len(POSITIVE_WORDS) :
          CountOccurrences(Lower(text), POSITIVE_WORDS[j][1]) >= 2
    /\ emotion_results[1].emotionality /= Zero

\* C8: the sentiment score is (positive_total - negative_total) /
\* (positive_total + negative_total), 0 when both totals are 0; the label is
\* "positive" exactly when the score is above 0.1, "negative" exactly when
\* it is below -0.1, "neutral" otherwise.
C8_SentimentScoreAndLabel ==
    Classified =>
        \A i \in 1..Len(emotion_results) :
            LET txt == sentences[i].text
                tl == Lower(txt)
                mult == intensity_multiplier(tl)
                p == positive_score(txt, tl, mult)
                n == negative_score(txt, tl, mult)
                er == emotion_results[i]
            IN  /\ (p = Zero /\ n = Zero) => er.sentiment_score = Zero
                /\ REq(RMul(er.sentiment_score, RAdd(p, n)), RSub(p, n))
                /\ er.sentiment = "positive" <=> RLess(<<1, 10>>, er.sentiment_score)
                /\ er.sentiment = "negative" <=> RLess(er.sentiment_score, <<-1, 10>>)
                /\ er.sentiment = "neutral" <=>
                      /\ RLeq(er.sentiment_score, <<1, 10>>)
                      /\ RLeq(<<-1, 10>>, er.sentiment_score)

\* a sentence with a non-zero score inside [-0.1, 0.1] has been scored
C8_Witness ==
    /\ pc = "classified_sentence"
    /\ emotion_results[1].sentiment = "neutral"
    /\ emotion_results[1].sentiment_score /= Zero

\* the ids in a list of ids
IdSet(ids) == {ids[k] : k \in 1..Len(ids)}

C10_StrongestSupportPromoted ==
    (Built /\ (\A i \in 1..Len(nodes) : nodes[i].arg_type /= "CLAIM")
           /\ (\E i \in 1..Len(nodes) : nodes[i].arg_type = "SUPPORT")) =>
        /\ Len(root_claims) = 1
        /\ LET r == NodeAt(nodes, root_claims[1])
           IN  /\ r.arg_type = "SUPPORT"
               /\ \A i \in 1..Len(nodes) :
                     nodes[i].arg_type = "SUPPORT" =>
                         /\ RLeq(nodes[i].strength, r.strength)
                         /\ REq(nodes[i].strength, r.strength) =>
                               r.id <= nodes[i].id

\* a support was promoted that is neither the first support nor the only
\* one of maximal strength
C10_Witness ==
    /\ Built
    /\ \A i \in 1..Len(nodes) : nodes[i].arg_type /= "CLAIM"
    /\ Len(root_claims) = 1
    /\ \E i, j \in 1..Len(nodes) :
          /\ nodes[i].arg_type = "SUPPORT" /\ nodes[j].arg_type = "SUPPORT"
          /\ nodes[i].id < root_claims[1] /\ root_claims[1] < nodes[j].id
          /\ REq(nodes[j].strength, NodeAt(nodes, root_claims[1]).strength)

\* the tree statistics have been computed
StatsDone == pc = "stats"

\* the argument types of the children of the node with id n
ChildTypes(n) ==
    {NodeAt(nodes, NodeAt(nodes, n).children[k]).arg_type :
        k \in 1..Len(NodeAt(nodes, n).children)}

\* C11 as stated: after build_structure every node in root_claims has
\* argument type CLAIM and every child of a root has argument type SUPPORT
\* or COUNTER.
C11_RootsAreClaims ==
    Built =>
        \A i \in 1..Len(root_claims) :
            /\ NodeAt(nodes, root_claims[i]).arg_type = "CLAIM"
            /\ ChildTypes(root_claims[i]) \subseteq {"SUPPORT", "COUNTER"}

\* C11 as amended: after build_structure every node in root_claims has
\* argument type CLAIM, or it is the only root, has type SUPPORT and no
\* node has type CLAIM; every child of a root has argument type SUPPORT or
\* COUNTER.
C11_RootsAreClaimsOrPromoted ==
    Built =>
        \A i \in 1..Len(root_claims) :
            /\ \/ NodeAt(nodes, root_claims[i]).arg_type = "CLAIM"
               \/ /\ NodeAt(nodes, root_claims[i]).arg_type = "SUPPORT"
                  /\ Len(root_claims) = 1
                  /\ \A k \in 1..Len(nodes) : nodes[k].arg_type /= "CLAIM"
            /\ ChildTypes(root_claims[i]) \subseteq {"SUPPORT", "COUNTER"}

\* a structure has been built whose only root is a promoted support with
\* both a support and a counter below it
C11_Witness ==
    /\ Built
    /\ Len(root_claims) = 1
    /\ NodeAt(nodes, root_claims[1]).arg_type = "SUPPORT"
    /\ ChildTypes(root_claims[1]) = {"SUPPORT", "COUNTER"}

\* the classifications contain no CLAIM and no SUPPORT
NoClaimNoSupport ==
    \A i \in 1..Len(classifications) :
        classifications[i].argument_type \notin {"CLAIM", "SUPPORT"}

\* the statistics with zero / 0.0 in every field
ZeroStats ==
    [total_nodes |-> 0, total_claims |-> 0, total_supports |-> 0,
     total_counters |-> 0, avg_strength |-> Zero, max_depth |-> 0,
     num_root_claims |-> 0]

\* C12 as stated: whenever the classifications contain no CLAIM and no
\* SUPPORT, build_structure returns an empty root list and get_tree_stats
\* reports zero / 0.0 in every field.
C12_AllStatsZero ==
    (StatsDone /\ NoClaimNoSupport) =>
        /\ root_claims = <<>>
        /\ tree_stats = ZeroStats

RECURSIVE SumClassStrength(_)
SumClassStrength(cls) ==
    IF cls = <<>> THEN Zero
    ELSE RAdd(cls[1].strength, SumClassStrength(Tail(cls)))

\* C12 as amended: whenever the classifications contain no CLAIM and no
\* SUPPORT, build_structure returns an empty root list and get_tree_stats
\* reports zero for total_claims, total_supports, max_depth and
\* num_root_claims, while total_nodes is the number of classifications,
\* total_counters the number of COUNTER ones and avg_strength their mean
\* strength (0 for an empty sequence).
C12_RootStatsZero ==
    (StatsDone /\ NoClaimNoSupport) =>
        /\ root_claims = <<>>
        /\ tree_stats.total_claims = 0
        /\ tree_stats.total_supports = 0
        /\ tree_stats.max_depth = 0
        /\ tree_stats.num_root_claims = 0
        /\ tree_stats.total_nodes = Len(classifications)
        /\ tree_stats.total_counters =
               Cardinality({i \in 1..Len(classifications) :
                               classifications[i].argument_type = "COUNTER"})
        /\ REq(RMul(tree_stats.avg_strength, <<Len(classifications), 1>>),
               SumClassStrength(classifications))

\* statistics have been computed for a COUNTER and a NEUTRAL sentence
C12_Witness ==
    /\ StatsDone
    /\ NoClaimNoSupport
    /\ Len(classifications) >= 2
    /\ tree_stats.total_counters = 1
    /\ RLess(Zero, tree_stats.avg_strength)

\* txt is empty or consists of whitespace only
IsBlank(txt) == \A i \in 1..Len(txt) : InChars(CharAt(txt, i), Whitespace)

\* C13: for empty or whitespace-only input process_text returns no
\* sentences, classify_arguments no classifications, build_structure no
\* roots, and every field of get_tree_stats is zero.
C13_BlankInputDegrades ==
    IsBlank(text) =>
        /\ pc /= "start" => sentences = <<>>
        /\ Classified => classifications = <<>>
        /\ Built => (nodes = <<>> /\ root_claims = <<>>)
        /\ StatsDone => tree_stats = ZeroStats

\* the whole pipeline has run on a whitespace-only text
C13_Witness ==
    /\ StatsDone
    /\ Len(text) >= 2
    /\ IsBlank(text)
    /\ tree_stats = ZeroStats

\* C14: running the pipeline (segment, detect roles, score emotions,
\* classify) twice on the same text yields identical classification
\* sequences, field for field, the order of the keywords included.
C14_RunsAgree ==
    (pc = "classified" /\ previous_runs /= <<>>) =>
        classifications = previous_runs[1]

\* detect_logical_weaknesses has returned
WeaknessesDone == pc = "weaknesses"

\* the position of a finding in the fixed rule order: Appeal to Emotion,
\* superlative Hasty Generalization, Ad Hominem, generalization-word Hasty
\* Generalization, Circular Reasoning, Appeal to Belief
RuleOrder ==
    <<AppealToEmotion, HastySuperlative, AdHominem, HastyGeneralization,
      CircularReasoning, AppealToBelief>>

RuleRank(entry) ==
    IF \E r \in 1..Len(RuleOrder) : RuleOrder[r] = entry
    THEN CHOOSE r \in 1..Len(RuleOrder) : RuleOrder[r] = entry
    ELSE 0

\* which of the six rules fire for the classification c, from its fields
RulesFiring(c) ==
    LET tl == Lower(c.sentence_text)
    IN  <<RLess(<<7, 10>>, c.emotionality),
          Cardinality({w \in {"absolutely", "definitely", "certainly",
                              "obviously", "clearly"} : Contains(tl, w)}) >= 2,
          \E w \in {"stupid", "idiot", "fool", "moron", "ignorant"} :
              Contains(tl, w),
          \E w \in {"all", "never", "always", "everybody", "nobody"} :
              Contains(tl, w),
          CountOccurrences(tl, "is") > 2,
          c.argument_type = "SUPPORT" /\ Contains(tl, "believe")>>

\* C15: the findings have pairwise distinct names and follow the fixed rule
\* order; when both the superlative rule and the generalization-word rule
\* fire, exactly one "Hasty Generalization" finding is kept, the one of the
\* superlative rule.
C15_DistinctOrderedFindings ==
    WeaknessesDone =>
        LET fires == RulesFiring(classifications[1])
        IN  /\ \A i, j \in 1..Len(feedback) :
                   i < j => /\ feedback[i].items.name /= feedback[j].items.name
                            /\ RuleRank(feedback[i]) < RuleRank(feedback[j])
            /\ (fires[2] /\ fires[4]) =>
                   /\ Cardinality({i \in 1..Len(feedback) :
                          feedback[i].items.name = "Hasty Generalization"}) = 1
                   /\ \E i \in 1..Len(feedback) : feedback[i] = HastySuperlative
                   /\ \A i \in 1..Len(feedback) : feedback[i] /= HastyGeneralization

\* a sentence with two superlatives and a generalization word has been
\* examined, and a finding follows the "Hasty Generalization" one
C15_Witness ==
    /\ WeaknessesDone
    /\ RulesFiring(classifications[1])[2]
    /\ RulesFiring(classifications[1])[4]
    /\ Len(feedback) >= 3
    /\ feedback[2] = HastySuperlative

\* C16: the result is the single sentinel finding named "None" if and only
\* if none of the six rules fires; the result is never empty and the
\* sentinel never appears together with another finding.
C16_SentinelIffNoRule ==
    WeaknessesDone =>
        LET fires == RulesFiring(classifications[1])
        IN  /\ (feedback = <<NoWeakness>>) <=> (\A r \in 1..6 : ~fires[r])
            /\ feedback /= <<>>
            /\ (\E i \in 1..Len(feedback) : feedback[i].items.name = "None") =>
                   Len(feedback) = 1

\* a non-empty sentence for which no rule fires has been examined, with a
\* superlative, the word "is" and "believe" in it
C16_Witness ==
    /\ WeaknessesDone
    /\ feedback = <<NoWeakness>>
    /\ Contains(Lower(classifications[1].sentence_text), "obviously")
    /\ Contains(Lower(classifications[1].sentence_text), "is")
    /\ Contains(Lower(classifications[1].sentence_text), "believe")

\* C17: every element of the list returned by detect_logical_weaknesses is
\* a string.
C17_FindingsAreStrings ==
    WeaknessesDone => \A i \in 1..Len(feedback) : feedback[i].type = "str"

\* process_text has returned
Segmented == pc \notin {"start", "raised"}

\* C18: the sentences returned by process_text in fallback mode carry
\* doc_id equal to their zero-based position in the returned list, so the
\* node id assigned by build_structure equals the originating sentence's
\* doc_id.
C18_DocIdIsPosition ==
    /\ Segmented =>
          \A i \in 1..Len(sentences) : sentences[i].doc_id = i - 1
    /\ Built =>
          /\ Len(nodes) = Len(sentences)
          /\ \A i \in 1..Len(nodes) : nodes[i].id = sentences[i].doc_id

\* a structure has been built from three sentences of a text in which
\* white space separates two sentences
C18_Witness ==
    /\ Built
    /\ Len(sentences) = 3
    /\ Contains(text, "? ?")
    /\ nodes[3].id = 2

\* C19: if the external tokenizer is loaded but its call fails, process_text
\* does not raise: it falls back to the regex strategy and returns the
\* fallback segmentation.
C19_FailureFallsBack ==
    (nlp = "failing" /\ pc /= "start") =>
        /\ pc = "segmented"
        /\ sentences = process_with_fallback(text)

\* C20: every Sentence returned by process_text has non-empty text and at
\* least one token, and every token has non-empty text.
C20_SentencesHaveTokens ==
    Segmented =>
        \A i \in 1..Len(sentences) :
            /\ sentences[i].text /= ""
            /\ Len(sentences[i].tokens) >= 1
            /\ \A k \in 1..Len(sentences[i].tokens) :
                   sentences[i].tokens[k].text /= ""

(***************************************************************************)
(* ArgumentClassifier: the query methods on a list of classifications.     *)
(***************************************************************************)
\* classifications a caller hands to the query methods: items of equal
\* type and strength differ in their sentence text, one of the texts
\* having more than 60 characters
QueryInputs ==
    { [sentence_text |-> t, argument_type |-> ty, confidence |-> Zero,
       sentiment |-> "neutral", emotionality |-> e, strength |-> s,
       keywords |-> <<>>] :
         t \in {"s", "this sentence is considerably longer than sixty "
                          \o "characters in all."},
         ty \in {"CLAIM", "SUPPORT"},
         e \in {<<1, 2>>}, s \in {<<1, 4>>, <<3, 4>>} }

\* [c for c in classifications if c.argument_type == arg_type]
FilterType(cls, arg_type) ==
    SelectSeq(cls, LAMBDA c : c.argument_type = arg_type)

\* sorted(..., reverse=True) is stable: an item goes behind every item
\* already placed whose strength is greater or equal
InsertByStrength_BeforeEqual(sorted, c) ==
    LET before == SelectSeq(sorted, LAMBDA d : RLess(c.strength, d.strength))
        after == SelectSeq(sorted, LAMBDA d : ~RLess(c.strength, d.strength))
    IN before \o <<c>> \o after

InsertByStrength(sorted, c) ==
    LET before == SelectSeq(sorted, LAMBDA d : ~RLess(d.strength, c.strength))
        after == SelectSeq(sorted, LAMBDA d : RLess(d.strength, c.strength))
    IN before \o <<c>> \o after

RECURSIVE SortByStrength(_, _, _)
SortByStrength(cls, i, sorted) ==
    IF i > Len(cls) THEN sorted
    ELSE SortByStrength(cls, i + 1, InsertByStrength(sorted, cls[i]))

\* seq[:n]
Slice(seq, n) ==
    IF n >= 0 THEN SubSeq(seq, 1, Min(n, Len(seq)))
    ELSE SubSeq(seq, 1, Len(seq) + n)

\* ArgumentClassifier.get_strongest_arguments(classifications, arg_type,
\* top_n)
get_strongest_arguments(cls, arg_type, top_n) ==
    LET filtered == IF arg_type /= "None" /\ arg_type /= ""
                    THEN FilterType(cls, arg_type) ELSE cls
    IN Slice(SortByStrength(filtered, 1, <<>>), top_n)

\* a caller that hands classifications of its own to the query methods
InitQuery ==
    /\ text = ""
    /\ hash_seed = 0
    /\ classifications \in UNION {[1..n -> QueryInputs] : n \in 0..MaxCls}
    /\ nlp = "None"
    /\ pc = "classified"
    /\ InitCommon

\* get_strongest_arguments with arg_type None ("None") or a type name and
\* top_n from -1 on
GetStrongestArguments ==
    /\ pc = "classified"
    /\ \E arg_type \in {"None"} \cup ArgTypes,
          top_n \in (0 - 1)..(MaxCls + 1) :
          strongest_arguments' =
              [arg_type |-> arg_type, top_n |-> top_n,
               result |-> get_strongest_arguments(classifications,
                                                  arg_type, top_n)]
    /\ pc' = "strongest"
    /\ UNCHANGED <<text, hash_seed, sentences, claim_results,
                   emotion_results, classifications, nodes, root_claims, nlp,
                   tree_stats, feedback, previous_runs, summary,
                   strongest_path, counter_pairs, earlier_nodes>>

\* sum(...) / len(items) if items else 0.0
AvgOf(values) ==
    LET RECURSIVE RSum(_)
        RSum(i) == IF i > Len(values) THEN Zero
                   ELSE RAdd(values[i], RSum(i + 1))
    IN  IF Len(values) > 0 THEN RDiv(RSum(1), <<Len(values), 1>>)
        ELSE Zero

\* [c.sentence_text[:60] + "..." for c in items[:2]]
Examples_AllItems(items) ==
    [i \in 1..Len(items) |->
        Slice(items[i].sentence_text, 60) \o "..."]

Examples(items) ==
    LET firsts == Slice(items, 2)
    IN [i \in 1..Len(firsts) |->
           Slice(firsts[i].sentence_text, 60) \o "..."]

\* the summary entry of one type
TypeSummary(items) ==
    [count |-> Len(items),
     avg_strength |-> AvgOf([i \in 1..Len(items) |-> items[i].strength]),
     avg_emotionality |->
         AvgOf([i \in 1..Len(items) |-> items[i].emotionality]),
     examples |-> Examples(items)]

\* ArgumentClassifier.get_argument_summary(classifications);
\* types[cls.argument_type] raises KeyError for a type outside the four
get_argument_summary(cls) ==
    IF \E i \in 1..Len(cls) : cls[i].argument_type \notin ArgTypes
    THEN [raised |-> "KeyError"]
    ELSE [CLAIM |-> TypeSummary(FilterType(cls, "CLAIM")),
          SUPPORT |-> TypeSummary(FilterType(cls, "SUPPORT")),
          COUNTER |-> TypeSummary(FilterType(cls, "COUNTER")),
          NEUTRAL |-> TypeSummary(FilterType(cls, "NEUTRAL"))]

GetArgumentSummary ==
    /\ pc = "classified"
    /\ summary' = get_argument_summary(classifications)
    /\ pc' = "summarised"
    /\ UNCHANGED <<text, hash_seed, sentences, claim_results,
                   emotion_results, classifications, nodes, root_claims, nlp,
                   tree_stats, feedback, previous_runs, strongest_arguments,
                   strongest_path, counter_pairs, earlier_nodes>>

NextQuery == GetStrongestArguments \/ GetArgumentSummary

SpecQuery == InitQuery /\ [][NextQuery]_vars

\* subseq can be obtained from seq by leaving items out
RECURSIVE IsSubseq(_, _)
IsSubseq(subseq, seq) ==
    IF subseq = <<>> THEN TRUE
    ELSE IF seq = <<>> THEN FALSE
    ELSE IF Head(subseq) = Head(seq) THEN IsSubseq(Tail(subseq), Tail(seq))
    ELSE IsSubseq(subseq, Tail(seq))

WithStrength(cls, s) == SelectSeq(cls, LAMBDA c : c.strength = s)

Matching(cls, arg_type) ==
    IF arg_type = "None" THEN cls ELSE FilterType(cls, arg_type)

\* C21: for top_n >= 0 get_strongest_arguments returns
\* min(top_n, number of matching classifications) items, all of them
\* matching the filter, in non-increasing strength, items of equal strength
\* in their original relative order, and no matching item that was left
\* out is stronger than a returned one.
C21_StrongestArguments ==
    (pc = "strongest" /\ strongest_arguments.top_n >= 0) =>
        LET call == strongest_arguments
            result == call.result
            matching == Matching(classifications, call.arg_type)
        IN /\ Len(result) = Min(call.top_n, Len(matching))
           /\ \A i \in 1..Len(result) :
                 call.arg_type /= "None" => result[i].argument_type = call.arg_type
           /\ \A i \in 1..Len(result), j \in 1..Len(result) :
                 i < j => RLeq(result[j].strength, result[i].strength)
           /\ \A s \in Strengths :
                 /\ IsSubseq(WithStrength(result, s),
                             WithStrength(matching, s))
                 /\ Len(WithStrength(result, s))
                        < Len(WithStrength(matching, s)) =>
                       \A i \in 1..Len(result) :
                          RLeq(s, result[i].strength)

\* a filtered call that returns two items of equal strength and different
\* text and leaves a matching item out
C21_Witness ==
    /\ pc = "strongest"
    /\ strongest_arguments.arg_type = "CLAIM"
    /\ strongest_arguments.top_n = 2
    /\ Len(FilterType(classifications, "CLAIM")) = 3
    /\ Len(strongest_arguments.result) = 2
    /\ strongest_arguments.result[1].strength
           = strongest_arguments.result[2].strength
    /\ strongest_arguments.result[1] /= strongest_arguments.result[2]

\* C22: get_argument_summary returns an entry for each of the four types
\* without raising; the counts add up to the number of classifications; a
\* type without members reports count 0, both averages 0.0 and no examples;
\* no type reports more than two examples.
C22_SummaryTotal ==
    pc = "summarised" =>
        /\ DOMAIN summary = ArgTypes
        /\ summary.CLAIM.count + summary.SUPPORT.count
               + summary.COUNTER.count + summary.NEUTRAL.count
             = Len(classifications)
        /\ \A t \in ArgTypes :
              /\ Len(summary[t].examples) <= 2
              /\ (\A i \in 1..Len(classifications) :
                      classifications[i].argument_type /= t) =>
                    /\ summary[t].count = 0
                    /\ summary[t].avg_strength = Zero
                    /\ summary[t].avg_emotionality = Zero
                    /\ summary[t].examples = <<>>

\* a summary of three claims and no other type
C22_Witness ==
    /\ pc = "summarised"
    /\ Len(classifications) = 3
    /\ summary.CLAIM.count = 3
    /\ Len(summary.CLAIM.examples) = 2
    /\ summary.SUPPORT.count = 0

\* the position of id n in the list ids, 0 if it is not in the list
PositionIn(ids, n) ==
    IF \E k \in 1..Len(ids) : ids[k] = n
    THEN CHOOSE k \in 1..Len(ids) : ids[k] = n
    ELSE 0

\* n is the first of the ids of greatest strength
FirstStrongest(ids, n) ==
    /\ PositionIn(ids, n) > 0
    /\ \A k \in 1..Len(ids) :
          /\ RLeq(NodeAt(nodes, ids[k]).strength, NodeAt(nodes, n).strength)
          /\ k < PositionIn(ids, n) =>
                RLess(NodeAt(nodes, ids[k]).strength,
                      NodeAt(nodes, n).strength)

\* C23: get_strongest_path returns the empty list when there are no roots;
\* otherwise its first element is the first root of maximal strength, each
\* following element is the first maximal-strength child of the element
\* before it, and its last element has no children.
C23_StrongestPath ==
    pc = "path" =>
        IF root_claims = <<>> THEN strongest_path = <<>>
        ELSE /\ strongest_path /= <<>>
             /\ FirstStrongest(root_claims, strongest_path[1])
             /\ \A i \in 2..Len(strongest_path) :
                   FirstStrongest(
                       NodeAt(nodes, strongest_path[i - 1]).children,
                       strongest_path[i])
             /\ NodeAt(nodes, strongest_path[Len(strongest_path)]).children
                    = <<>>

\* the path starts at the second of two roots, the stronger one, and goes
\* on to its child
C23_Witness ==
    /\ pc = "path"
    /\ Len(root_claims) = 2
    /\ Len(strongest_path) = 2
    /\ strongest_path[1] = root_claims[2]
    /\ strongest_path[2] = NodeAt(nodes, strongest_path[1]).children[1]

\* the roots that have the node with id n in their children list
RootsHolding(n) ==
    {r \in IdSet(root_claims) : n \in IdSet(NodeAt(nodes, r).children)}

C26_TwoLevels ==
    /\ Built =>
          \A r \in 1..Len(nodes) : \A c \in IdSet(nodes[r].children) :
              /\ NodeAt(nodes, c).children = <<>>
              /\ c \notin IdSet(root_claims)
    /\ pc = "stats" => tree_stats.max_depth \in {0, 1, 2}
    /\ pc = "path" => Len(strongest_path) <= 2

\* statistics of depth 2 for two claims followed by a support
C26_Witness ==
    /\ pc = "stats"
    /\ tree_stats.max_depth = 2
    /\ Len(root_claims) = 2
    /\ NodeAt(nodes, root_claims[1]).children /= <<>>

\* the classifications contain a CLAIM / a SUPPORT
HasType(t) ==
    \E i \in 1..Len(classifications) : classifications[i].argument_type = t

\* C27: num_root_claims equals total_claims when the input has a CLAIM or
\* no SUPPORT; with no CLAIM and a SUPPORT, num_root_claims is 1,
\* total_claims is 0 and the promoted node is counted in total_supports.
C27_RootCountVersusClaims ==
    pc = "stats" =>
        IF HasType("CLAIM") \/ ~HasType("SUPPORT")
        THEN tree_stats.num_root_claims = tree_stats.total_claims
        ELSE /\ tree_stats.num_root_claims = 1
             /\ tree_stats.total_claims = 0
             /\ NodeAt(nodes, root_claims[1]).arg_type = "SUPPORT"
             /\ tree_stats.total_supports =
                    Cardinality({i \in 1..Len(classifications) :
                        classifications[i].argument_type = "SUPPORT"})

\* statistics of a structure whose root is one of two supports
C27_Witness ==
    /\ pc = "stats"
    /\ ~HasType("CLAIM")
    /\ tree_stats.total_supports = 2
    /\ tree_stats.num_root_claims = 1
    /\ tree_stats.total_claims = 0

\* the weights of all markers of all lexicons, in hundredths
AllWeights ==
    UNION {{all_markers[t][k][2] : k \in 1..Len(all_markers[t])} :
              t \in DOMAIN all_markers}

\* the strength formula of a classification before the clamp
UnclampedStrength(c) ==
    LET bonus == IF \/ c.argument_type = "COUNTER" /\ c.sentiment = "negative"
                    \/ c.argument_type /= "COUNTER"
                       /\ c.sentiment \in {"positive", "neutral"}
                 THEN <<1, 5>> ELSE <<-1, 10>>
        efac == RMax(<<1, 2>>,
                     RSub(One, RAbs(RSub(c.emotionality, <<3, 10>>))))
    IN  RAdd(RMul(c.confidence, <<1, 2>>),
             RAdd(RMul(efac, <<3, 10>>),
                  RMul(RAdd(<<1, 2>>, bonus), <<1, 5>>)))

\* C28: every lexicon weight lies in [0.6, 0.95] and the clamp of the
\* strength formula never takes effect: every strength equals the
\* unclamped value and lies in [0.23, 0.915]; every non-NEUTRAL
\* classification has a confidence in [0.6, 0.95] and a strength of at
\* least 0.53.
C28_StrengthBounds ==
    /\ \A w \in AllWeights : 60 <= w /\ w <= 95
    /\ Classified =>
          \A i \in 1..Len(classifications) :
              LET c == classifications[i]
              IN  /\ REq(c.strength, UnclampedStrength(c))
                  /\ RLeq(<<23, 100>>, c.strength)
                  /\ RLeq(c.strength, <<183, 200>>)
                  /\ c.argument_type /= "NEUTRAL" =>
                        /\ RLeq(<<3, 5>>, c.confidence)
                        /\ RLeq(c.confidence, <<19, 20>>)
                        /\ RLeq(<<53, 100>>, c.strength)

\* a NEUTRAL sentence of strength 0.23 has been classified
C28_Witness ==
    /\ pc = "classified_sentence"
    /\ classifications[1].argument_type = "NEUTRAL"
    /\ REq(classifications[1].strength, <<23, 100>>)

\* the position of the last terminator of txt, 0 if it has none
LastTerminator(txt) ==
    MaxOf({0} \cup {k \in 1..Len(txt) : IsTerminator(CharAt(txt, k))})

\* txt without its white space
RECURSIVE NonWhitespace(_)
NonWhitespace(txt) ==
    IF txt = "" THEN ""
    ELSE (IF InChars(CharAt(txt, 1), Whitespace) THEN ""
          ELSE SubSeq(txt, 1, 1))
             \o NonWhitespace(SubSeq(txt, 2, Len(txt)))

\* the texts of the sentences, concatenated
RECURSIVE SentenceContent(_)
SentenceContent(sents) ==
    IF sents = <<>> THEN ""
    ELSE sents[1].text \o SentenceContent(Tail(sents))

\* C29: the fallback segmenter discards the text after the last '.', '!'
\* or '?': a text without these characters yields no sentences, and the
\* content of the returned sentences is, white space aside, the text up to
\* the last terminator, so it never includes the unterminated tail.
C29_TailDiscarded ==
    (Segmented /\ nlp = "None") =>
        /\ LastTerminator(text) = 0 => sentences = <<>>
        /\ NonWhitespace(SentenceContent(sentences))
               = NonWhitespace(SubSeq(text, 1, LastTerminator(text)))

\* a text with a sentence and words behind its last terminator has been
\* segmented
C29_Witness ==
    /\ Segmented
    /\ Len(sentences) = 1
    /\ LastTerminator(text) > 0
    /\ ~IsBlank(SubSeq(text, LastTerminator(text) + 1, Len(text)))

\* the number of terminators in txt
CountTerminators(txt) ==
    Cardinality({k \in 1..Len(txt) : IsTerminator(CharAt(txt, k))})

\* C30: every sentence text of the fallback segmenter contains exactly one
\* of '.', '!', '?' and ends with it; so the exclamation count of every
\* sentence in the pipeline is 0 or 1, with no keyword for two or more
\* exclamation marks, and the text "!!!" becomes three sentences "!".
C30_OneTerminatorPerSentence ==
    /\ (Segmented /\ nlp = "None") =>
          /\ \A i \in 1..Len(sentences) :
                /\ CountTerminators(sentences[i].text) = 1
                /\ IsTerminator(CharAt(sentences[i].text,
                                       Len(sentences[i].text)))
                /\ exclamation_count(sentences[i].text) \in {0, 1}
          /\ text = "!!!" =>
                /\ Len(sentences) = 3
                /\ \A i \in 1..3 : sentences[i].text = "!"
    /\ (Classified /\ nlp = "None") =>
          \A i \in 1..Len(emotion_results) :
              \A k \in 1..Len(emotion_results[i].emotion_keywords) :
                  LET kw == emotion_results[i].emotion_keywords[k]
                  IN  (Len(kw) >= 2 /\ SubSeq(kw, 1, 2) = "!x")
                          => kw = "!x1"

\* the text "!!!" has been segmented and classified
C30_Witness ==
    /\ pc = "classified"
    /\ text = "!!!"
    /\ Len(sentences) = 3
    /\ \E k \in 1..Len(emotion_results[1].emotion_keywords) :
          emotion_results[1].emotion_keywords[k] = "!x1"

(***************************************************************************)
(* One StructureBuilder used for several builds.                           *)
(***************************************************************************)
MaxBuilds == 3

\* a classification of type t and strength s
Cls(t, s) ==
    [sentence_text |-> "s", argument_type |-> t, confidence |-> Zero,
     sentiment |-> "neutral", emotionality |-> Zero, keywords |-> <<>>,
     strength |-> s]

\* the classification lists handed to the builder
BuilderInputs ==
    { <<>>,
      <<Cls("CLAIM", <<3, 4>>)>>,
      <<Cls("CLAIM", <<1, 2>>), Cls("SUPPORT", <<1, 4>>),
        Cls("COUNTER", <<3, 4>>)>>,
      <<Cls("SUPPORT", <<1, 2>>), Cls("SUPPORT", <<3, 4>>)>>,
      <<Cls("NEUTRAL", <<1, 4>>), Cls("COUNTER", <<1, 2>>)>> }

\* the classifications a node list was made from
ClassificationsOf(ns) ==
    [i \in 1..Len(ns) |->
        [sentence_text |-> ns[i].text, argument_type |-> ns[i].arg_type,
         confidence |-> Zero, sentiment |-> "neutral",
         emotionality |-> ns[i].emotionality, keywords |-> <<>>,
         strength |-> ns[i].strength]]

\* build_on_builder starting from the builder's node list instead of an
\* empty one: the nodes of the build before take part in the new build
build_on_builder_Accumulating(held, cls) ==
    IF held = <<>> THEN [held |-> held, built |-> build_structure(cls)]
    ELSE LET previous == held[Len(held)]
             all == build_structure(ClassificationsOf(previous) \o cls)
         IN  [held |-> [held EXCEPT ![Len(held)] =
                           SubSeq(all.nodes, 1, Len(previous))],
              built |-> all]

\* build_structure on a builder that was used before: held are the node
\* lists of the earlier builds, which the callers still hold.  The method
\* starts from a new list (nodes = []) of new ArgumentNode objects and
\* add_child is called on these only, so the held nodes stay as they are.
build_on_builder(held, cls) ==
    [held |-> held, built |-> build_structure(cls)]

\* a caller that constructs a StructureBuilder
InitBuilder ==
    /\ text = ""
    /\ hash_seed = 0
    /\ classifications = <<>>
    /\ nlp = "None"
    /\ pc = "new"
    /\ InitCommon

\* whether build_structure has been called on the builder
BuilderPhase ==
    IF pc \in {"new", "new_stats", "new_path", "new_pairs"}
    THEN "new" ELSE "rebuilt"

\* StructureBuilder.build_structure(cls) on the builder, whatever it
\* holds, for at most MaxBuilds calls
BuildStructureAgain ==
    /\ pc \in {"new", "new_stats", "new_path", "new_pairs", "rebuilt",
               "rebuilt_stats", "rebuilt_path", "rebuilt_pairs"}
    /\ BuilderPhase = "rebuilt" => Len(earlier_nodes) + 1 < MaxBuilds
    /\ \E cls \in BuilderInputs :
          LET held == IF BuilderPhase = "new" THEN earlier_nodes
                      ELSE Append(earlier_nodes, nodes)
              after == build_on_builder(held, cls)
          IN  /\ classifications' = cls
              /\ earlier_nodes' = after.held
              /\ nodes' = after.built.nodes
              /\ root_claims' = after.built.root_claims
    /\ tree_stats' = <<>>
    /\ strongest_path' = <<>>
    /\ counter_pairs' = <<>>
    /\ pc' = "rebuilt"
    /\ UNCHANGED <<text, hash_seed, sentences, claim_results,
                   emotion_results, nlp, feedback, previous_runs,
                   strongest_arguments, summary>>

\* get_tree_stats() on the builder, before or after a build
BuilderGetTreeStats ==
    /\ pc \in {"new", "rebuilt"}
    /\ tree_stats' = get_tree_stats(nodes, root_claims)
    /\ pc' = pc \o "_stats"
    /\ UNCHANGED <<text, hash_seed, sentences, claim_results,
                   emotion_results, classifications, nodes, root_claims, nlp,
                   feedback, previous_runs, query_vars>>

\* get_strongest_path() on the builder, before or after a build
BuilderGetStrongestPath ==
    /\ pc \in {"new", "rebuilt"}
    /\ strongest_path' = get_strongest_path(nodes, root_claims)
    /\ pc' = pc \o "_path"
    /\ UNCHANGED <<text, hash_seed, sentences, claim_results,
                   emotion_results, classifications, nodes, root_claims, nlp,
                   tree_stats, feedback, previous_runs, strongest_arguments,
                   summary, counter_pairs, earlier_nodes>>

\* get_counterargument_pairs() on the builder, before or after a build
BuilderGetCounterargumentPairs ==
    /\ pc \in {"new", "rebuilt"}
    /\ counter_pairs' = get_counterargument_pairs(nodes, root_claims)
    /\ pc' = pc \o "_pairs"
    /\ UNCHANGED <<text, hash_seed, sentences, claim_results,
                   emotion_results, classifications, nodes, root_claims, nlp,
                   tree_stats, feedback, previous_runs, strongest_arguments,
                   summary, strongest_path, earlier_nodes>>

NextBuilder ==
    \/ BuildStructureAgain
    \/ BuilderGetTreeStats
    \/ BuilderGetStrongestPath
    \/ BuilderGetCounterargumentPairs

SpecBuilder == InitBuilder /\ [][NextBuilder]_vars

\* the number of classifications of type t in the last input
InputCount(t) ==
    Cardinality({i \in 1..Len(classifications) :
                    classifications[i].argument_type = t})

\* before any build the queries report nothing; after a build the nodes,
\* the roots and the query results are those of the last input alone
LatestBuildOnly ==
    /\ pc = "new_stats" => tree_stats = ZeroStats
    /\ pc = "new_path" => strongest_path = <<>>
    /\ pc = "new_pairs" => counter_pairs = <<>>
    /\ BuilderPhase = "rebuilt" =>
          /\ Len(nodes) = Len(classifications)
          /\ \A i \in 1..Len(nodes) :
                /\ nodes[i].id = i - 1
                /\ nodes[i].arg_type = classifications[i].argument_type
                /\ nodes[i].strength = classifications[i].strength
          /\ nodes = build_structure(classifications).nodes
          /\ root_claims = build_structure(classifications).root_claims
    /\ pc = "rebuilt_stats" =>
          /\ tree_stats.total_nodes = Len(classifications)
          /\ tree_stats.total_claims = InputCount("CLAIM")
          /\ tree_stats.total_supports = InputCount("SUPPORT")
          /\ tree_stats.total_counters = InputCount("COUNTER")
          /\ tree_stats =
                 get_tree_stats(build_structure(classifications).nodes,
                                build_structure(classifications).root_claims)
    /\ pc = "rebuilt_path" =>
          strongest_path =
              get_strongest_path(build_structure(classifications).nodes,
                                 build_structure(classifications).root_claims)
    /\ pc = "rebuilt_pairs" =>
          counter_pairs =
              get_counterargument_pairs(
                  build_structure(classifications).nodes,
                  build_structure(classifications).root_claims)

\* a step leaves the nodes of the earlier builds as they are, those of the
\* build it supersedes included
EarlierNodesKept ==
    /\ Len(earlier_nodes') >= Len(earlier_nodes)
    /\ SubSeq(earlier_nodes', 1, Len(earlier_nodes)) = earlier_nodes
    /\ Len(earlier_nodes') > Len(earlier_nodes) =>
          /\ Len(earlier_nodes') = Len(earlier_nodes) + 1
          /\ earlier_nodes'[Len(earlier_nodes')] = nodes

\* C25: a StructureBuilder holds only the result of its latest build:
\* before any build_structure call get_tree_stats is all zero and
\* get_strongest_path and get_counterargument_pairs are empty; after any
\* sequence of build_structure calls the nodes, the roots and every derived
\* statistic reflect the last input alone; and no call modifies the nodes
\* returned by earlier calls.
C25_LatestBuildOnly == [](LatestBuildOnly) /\ [][EarlierNodesKept]_vars

\* statistics of a third build with fewer nodes than the second, whose
\* nodes had children
C25_Witness ==
    /\ pc = "rebuilt_stats"
    /\ Len(earlier_nodes) = 2
    /\ \E k \in 1..Len(earlier_nodes[2]) :
          earlier_nodes[2][k].children /= <<>>
    /\ Len(nodes) < Len(earlier_nodes[2])
    /\ tree_stats.total_nodes = Len(nodes)

====
